---- MODULE Spec2Model ----
(***************************************************************************)
(* Model of the oduku puzzle engine: the bitmask solver, the solution      *)
(* counter and the clue carver of lib/sudoku, and the game store with its  *)
(* history tree.                                                           *)
(*                                                                         *)
(* Cells are numbered 0..80 (index = row * 9 + col).  A Board is a         *)
(* function from 0..80 to 0..9, where 0 stands for the source's null.      *)
(* A candidate bitmask is modelled by the set of digits whose bit is set.  *)
(***************************************************************************)
EXTENDS Integers, Sequences, FiniteSets, TLC

VARIABLES
  inBoard,   \* harness of the pure functions: the Board passed in
  inLimit,   \* the limit passed to countSolutions, 0 when it did not run
  inRandom,  \* what the generator draws: [difficulty, nums, pick, cells]
  op,        \* "none", then the function that ran, or the handler that last
             \* changed the store
  out,       \* the result of the function
  gameState,        \* gameStateAtom
  historyTree,      \* historyTreeAtom
  history,          \* historyAtom, the legacy undo list
  selectedCell,     \* selectedCellBaseAtom
  pendingCellEdit,  \* pendingCellEditAtom
  noteMode,         \* noteModeAtom
  currentHint,      \* currentHintAtom
  difficultyAtom,   \* difficultyAtom
  timeouts,         \* the values of the setTimeout callbacks not yet run
  nextId,           \* the next id generateId issues
  stepsLeft         \* how many more handler calls the bound lets change the store

libVars == <<inBoard, inLimit, inRandom, out>>

storeVars ==
  <<gameState, historyTree, history, selectedCell, pendingCellEdit, noteMode,
    currentHint, difficultyAtom, timeouts, nextId, stepsLeft>>

vars == <<libVars, op, storeVars>>

Cells == 0 .. 80
Digits == 1 .. 9

\* ALL_CANDIDATES = 0x1ff: all nine bits set
ALL_CANDIDATES == Digits

RowOf(i) == i \div 9
ColOf(i) == i % 9
BoxOf(i) == (RowOf(i) \div 3) * 3 + (ColOf(i) \div 3)

\* countBits: number of set bits
countBits(n) == Cardinality(n)

\* getLowestBit: 1-9 for the lowest set bit, 0 for the empty mask
getLowestBit(n) == IF n = {} THEN 0 ELSE CHOOSE d \in n : \A e \in n : d <= e

\* The three units of a cell, each in the order initializePeers pushes it
RowUnit(i) == [k \in 1 .. 9 |-> RowOf(i) * 9 + (k - 1)]
ColUnit(i) == [k \in 1 .. 9 |-> (k - 1) * 9 + ColOf(i)]
BoxUnit(i) ==
  [k \in 1 .. 9 |->
     ((RowOf(i) \div 3) * 3 + ((k - 1) \div 3)) * 9
       + ((ColOf(i) \div 3) * 3 + ((k - 1) % 3))]

\* UNITS[cell] = [rowUnit, colUnit, boxUnit]
UNITS == [i \in Cells |-> <<RowUnit(i), ColUnit(i), BoxUnit(i)>>]

\* the peers as an array that keeps what the Set drops
PeersOfAll(i) ==
  SelectSeq(RowUnit(i), LAMBDA j : j # i)
    \o SelectSeq(ColUnit(i), LAMBDA j : j # i)
    \o SelectSeq(BoxUnit(i), LAMBDA j : j # i)

\* PEERS[cell] = Array.from(peers): a Set keeps insertion order and drops
\* the box cells that the row and column loops have already added
PeersOf(i) ==
  SelectSeq(RowUnit(i), LAMBDA j : j # i)
    \o SelectSeq(ColUnit(i), LAMBDA j : j # i)
    \o SelectSeq(BoxUnit(i), LAMBDA j : RowOf(j) # RowOf(i) /\ ColOf(j) # ColOf(i))

PEERS == [i \in Cells |-> PeersOf(i)]

\* the peers of each cell as a set
PeerSets == [i \in Cells |-> {PEERS[i][k] : k \in 1 .. Len(PEERS[i])}]
PeerSet(i) == PeerSets[i]

\* getRelatedCells of part_000: the peers of the cell as [row, col] pairs
getRelatedCells(row, col) ==
  [k \in 1 .. Len(PEERS[row * 9 + col]) |->
     <<PEERS[row * 9 + col][k] \div 9, PEERS[row * 9 + col][k] % 9>>]

\* getRelatedCells of sudoku.ts: the row without col, the column without
\* row, then the cells of the box in neither
getRelatedCellsLoops(row, col) ==
  [x \in 1 .. 8 |-> <<row, IF x - 1 < col THEN x - 1 ELSE x>>]
    \o [y \in 1 .. 8 |-> <<IF y - 1 < row THEN y - 1 ELSE y, col>>]
    \o SelectSeq([k \in 1 .. 9 |->
                    <<(row \div 3) * 3 + ((k - 1) \div 3),
                      (col \div 3) * 3 + ((k - 1) % 3)>>],
                 LAMBDA rc : rc[1] # row /\ rc[2] # col)

(***************************************************************************)
(* Running code.  The solver's methods call each other recursively; the    *)
(* model runs them on an explicit call stack.  A machine m has the         *)
(* object's arrays, a stack of frames (one per active call, holding the    *)
(* call's arguments, its loop variables and the place it has reached) and  *)
(* ret, the value the call that just returned gave to its caller ("none"   *)
(* while no call has just returned).  A step operator advances the top     *)
(* frame by one loop iteration; a machine with an empty stack has halted.  *)
(***************************************************************************)

Top(m) == m.stack[Len(m.stack)]
Pop(m, r) == [m EXCEPT !.stack = SubSeq(@, 1, Len(@) - 1), !.ret = r]
Push(m, fr) == [m EXCEPT !.stack = Append(@, fr), !.ret = "none"]
SetTop(m, fr) == [m EXCEPT !.stack[Len(m.stack)] = fr, !.ret = "none"]
Halted(m) == m.stack = <<>>

\* the least element of a non-empty set of numbers
Least(S) == CHOOSE x \in S : \A y \in S : x <= y

(***************************************************************************)
(* SudokuSolver                                                            *)
(***************************************************************************)

\* a call of assign(cell, value): otherCandidates is computed on entry
AssignFrame(m, cell, value) ==
  [f |-> "assign", cell |-> cell, value |-> value,
   otherCandidates |-> m.cand[cell] \ {value}, d |-> 1]

\* a call of eliminate(cell, value)
ElimFrame(cell, value) ==
  [f |-> "eliminate", pc |-> "start", cell |-> cell, value |-> value, k |-> 1, d |-> 0]

\* a call of initializeCandidates()
InitFrame == [f |-> "initializeCandidates", i |-> 0]

\* a call of search()
SearchFrame ==
  [f |-> "search", pc |-> "start", bestCell |-> -1, candidates |-> {}, d |-> 1,
   savedGrid |-> <<>>, savedCandidates |-> <<>>]

\* solvePuzzle: the constructor, then solve()
MainFrame == [f |-> "solvePuzzle", pc |-> "constructor"]

\* assign: for d = 1..9, if otherCandidates has d and eliminate(cell, d) fails, return false
StepAssign(m, fr) ==
  IF m.ret = "false" THEN Pop(m, "false")
  ELSE LET ds == {x \in fr.otherCandidates : x >= fr.d}
       IN IF ds = {} THEN Pop(m, "true")
          ELSE Push(SetTop(m, [fr EXCEPT !.d = Least(ds) + 1]),
                    ElimFrame(fr.cell, Least(ds)))

\* eliminate that goes on without removing the candidate
StepEliminateStartKept(m, fr) ==
  IF fr.value \notin m.cand[fr.cell] THEN Pop(m, "true")
  ELSE LET left == m.cand[fr.cell] \ {fr.value}
       IN IF left = {} THEN Pop(m, "false")
          ELSE IF countBits(left) = 1
            THEN SetTop([m EXCEPT !.grid[fr.cell] = getLowestBit(left)],
                        [fr EXCEPT !.pc = "peers", !.k = 1, !.d = getLowestBit(left)])
            ELSE SetTop(m, [fr EXCEPT !.pc = "units", !.k = 1])

\* eliminate, up to the loops: already eliminated, remove, contradiction, single left
StepEliminateStart(m, fr) ==
  IF fr.value \notin m.cand[fr.cell] THEN Pop(m, "true")
  ELSE LET left == m.cand[fr.cell] \ {fr.value}
           m1 == [m EXCEPT !.cand[fr.cell] = left]
       IN IF left = {} THEN Pop(m1, "false")
          ELSE IF countBits(left) = 1
            THEN SetTop([m1 EXCEPT !.grid[fr.cell] = getLowestBit(left)],
                        [fr EXCEPT !.pc = "peers", !.k = 1, !.d = getLowestBit(left)])
            ELSE SetTop(m1, [fr EXCEPT !.pc = "units", !.k = 1])

\* eliminate: for (const peer of PEERS[cell]) if (!this.eliminate(peer, d)) return false
StepEliminatePeers(m, fr) ==
  IF m.ret = "false" THEN Pop(m, "false")
  ELSE IF fr.k > Len(PEERS[fr.cell])
    THEN SetTop(m, [fr EXCEPT !.pc = "units", !.k = 1])
    ELSE Push(SetTop(m, [fr EXCEPT !.k = @ + 1]),
              ElimFrame(PEERS[fr.cell][fr.k], fr.d))

\* eliminate: for (const unit of UNITS[cell]): no place fails, a single place is assigned
StepEliminateUnits(m, fr) ==
  IF m.ret = "false" THEN Pop(m, "false")
  ELSE IF fr.k > 3 THEN Pop(m, "true")
  ELSE LET places == SelectSeq(UNITS[fr.cell][fr.k],
                               LAMBDA idx : fr.value \in m.cand[idx])
       IN IF Len(places) = 0 THEN Pop(m, "false")
          ELSE IF Len(places) = 1
            THEN Push(SetTop(m, [fr EXCEPT !.k = @ + 1]),
                      AssignFrame(m, places[1], fr.value))
            ELSE SetTop(m, [fr EXCEPT !.k = @ + 1])

StepEliminate(m, fr) ==
  IF fr.pc = "start" THEN StepEliminateStart(m, fr)
  ELSE IF fr.pc = "peers" THEN StepEliminatePeers(m, fr)
  ELSE StepEliminateUnits(m, fr)

\* initializeCandidates: assign every cell whose grid value is not 0, in index
\* order, reading this.grid[i] when the loop reaches i; stop at the first failure
StepInitializeCandidates(m, fr) ==
  IF m.ret = "false" THEN Pop(m, "false")
  ELSE LET clues == {i \in fr.i .. 80 : m.grid[i] # 0}
       IN IF clues = {} THEN Pop(m, "true")
          ELSE Push(SetTop(m, [fr EXCEPT !.i = Least(clues) + 1]),
                    AssignFrame(m, Least(clues), m.grid[Least(clues)]))

\* search: the empty cell with the fewest candidates, first in row-major order
BestCell(m) ==
  LET empty == {i \in Cells : m.grid[i] = 0}
  IN IF empty = {} THEN -1
     ELSE CHOOSE i \in empty :
            \A j \in empty :
              \/ countBits(m.cand[i]) < countBits(m.cand[j])
              \/ (countBits(m.cand[i]) = countBits(m.cand[j]) /\ i <= j)

\* toBoard: the grid, 0 becoming null
toBoard(m) == m.grid

\* a search that drops the "Restore state" lines
RestoreStateDropped(m, fr) == [m EXCEPT !.restored = @ + 1]

\* a search that restores the grid and leaves the candidates
RestoreStateGridOnly(m, fr) ==
  [m EXCEPT !.grid = fr.savedGrid, !.restored = @ + 1]

\* "Restore state": this.grid = savedGrid; this.candidates = savedCandidates;
\* restored counts how often the lines ran, for observation only
RestoreState(m, fr) ==
  [m EXCEPT !.grid = fr.savedGrid, !.cand = fr.savedCandidates,
            !.restored = @ + 1]

StepSearch(m, fr) ==
  IF fr.pc = "start"
    THEN IF BestCell(m) = -1
           THEN Pop([m EXCEPT !.result = toBoard(m)], "board")
           ELSE SetTop(m, [fr EXCEPT !.pc = "loop", !.bestCell = BestCell(m),
                                      !.candidates = m.cand[BestCell(m)], !.d = 1])
  ELSE IF fr.pc = "loop"
    THEN LET ds == {x \in fr.candidates : x >= fr.d}
         IN IF ds = {} THEN Pop(m, "null")
            ELSE Push(SetTop(m, [fr EXCEPT !.pc = "assign", !.d = Least(ds) + 1,
                                           !.savedGrid = m.grid,
                                           !.savedCandidates = m.cand]),
                      AssignFrame(m, fr.bestCell, Least(ds)))
  ELSE IF fr.pc = "assign"
    THEN IF m.ret = "true"
           THEN Push(SetTop(m, [fr EXCEPT !.pc = "search"]), SearchFrame)
           ELSE SetTop(RestoreState(m, fr), [fr EXCEPT !.pc = "loop"])
  ELSE \* fr.pc = "search": const result = this.search(); if (result) return result
       IF m.ret = "board" THEN Pop(m, "board")
       ELSE SetTop(RestoreState(m, fr), [fr EXCEPT !.pc = "loop"])

\* solvePuzzle: new SudokuSolver(board) runs initializeCandidates and drops its
\* result; solver.solve() is search()
StepSolvePuzzle(m, fr) ==
  IF fr.pc = "constructor"
    THEN Push(SetTop(m, [fr EXCEPT !.pc = "solve"]), SearchFrame)
    ELSE Pop(m, m.ret)

StepSolver(m) ==
  IF Halted(m) THEN m
  ELSE LET fr == Top(m)
       IN IF fr.f = "assign" THEN StepAssign(m, fr)
          ELSE IF fr.f = "eliminate" THEN StepEliminate(m, fr)
          ELSE IF fr.f = "initializeCandidates" THEN StepInitializeCandidates(m, fr)
          ELSE IF fr.f = "search" THEN StepSearch(m, fr)
          ELSE StepSolvePuzzle(m, fr)

\* 2^SolverFuel steps are more than any run of the model takes
SolverFuel == 9

RECURSIVE RunSolver(_, _)
\* up to 4^k steps of m, stopping when it halts
RunSolver(m, k) ==
  IF k = 0 THEN StepSolver(m)
  ELSE LET m1 == RunSolver(m, k - 1)
       IN IF m1.stack = <<>> THEN m1
          ELSE LET m2 == RunSolver(m1, k - 1)
               IN IF m2.stack = <<>> THEN m2
                  ELSE LET m3 == RunSolver(m2, k - 1)
                       IN IF m3.stack = <<>> THEN m3
                          ELSE RunSolver(m3, k - 1)

\* the constructor: grid filled from the board, every mask ALL_CANDIDATES
NewSolver(board) ==
  [grid |-> board, cand |-> [i \in Cells |-> ALL_CANDIDATES],
   stack |-> <<MainFrame, InitFrame>>, ret |-> "none", result |-> <<>>,
   restored |-> 0]

\* the result of solvePuzzle: null is [found |-> FALSE]
Null == [found |-> FALSE, board |-> <<>>]

solvePuzzle(board) ==
  LET m == RunSolver(NewSolver(board), SolverFuel)
  IN IF m.ret = "board" THEN [found |-> TRUE, board |-> m.result] ELSE Null

\* how many trial assignments the search of solvePuzzle(board) took back
SearchRestores(board) == RunSolver(NewSolver(board), SolverFuel).restored

(***************************************************************************)
(* countSolutions                                                          *)
(***************************************************************************)

\* "for (let i = cells; i < 81; i++) if (grid[i] === 0)": the first empty cell
FirstEmpty(grid, cells) ==
  LET empty == {i \in cells .. 80 : grid[i] = 0}
  IN IF empty = {} THEN -1 ELSE Least(empty)

\* the candidates of a cell: ALL_CANDIDATES minus the values of its filled peers
PeerCandidates(grid, cell) ==
  ALL_CANDIDATES \ {grid[p] : p \in PeerSet(cell)}

\* a call of the inner solve(cells)
CountFrame(cells) ==
  [pc |-> "start", cells |-> cells, cell |-> -1, candidates |-> {}, d |-> 1]

\* solve(cells) up to its loop: no empty cell counts a solution, else the
\* candidates of the first empty cell are collected
StepCountStart(m, fr, cell) ==
  IF cell = -1
    THEN Pop([m EXCEPT !.count = @ + 1],
             IF m.count + 1 >= m.limit THEN "true" ELSE "false")
    ELSE SetTop(m, [fr EXCEPT !.pc = "loop", !.cell = cell, !.d = 1,
                              !.candidates = PeerCandidates(m.grid, cell)])

\* solve(cells), one turn of "for (let d = 1; d <= 9; d++)": m.ret is what the
\* call of the turn before returned
StepCountLoop(m, fr) ==
  IF m.ret = "true" THEN Pop(m, "true")
  ELSE LET m1 == IF m.ret = "false" THEN [m EXCEPT !.grid[fr.cell] = 0] ELSE m
           ds == {x \in fr.candidates : x >= fr.d}
       IN IF ds = {} THEN Pop(m1, "false")
          ELSE Push(SetTop([m1 EXCEPT !.grid[fr.cell] = Least(ds)],
                           [fr EXCEPT !.d = Least(ds) + 1]),
                    CountFrame(fr.cell + 1))

\* the inner solve(cells) of countSolutions
StepCount(m) ==
  IF Halted(m) THEN m
  ELSE IF Top(m).pc = "start"
    THEN StepCountStart(m, Top(m), FirstEmpty(m.grid, Top(m).cells))
    ELSE StepCountLoop(m, Top(m))

RECURSIVE RunCount(_, _)
\* up to 4^k steps of m, stopping when it halts
RunCount(m, k) ==
  IF k = 0 THEN StepCount(m)
  ELSE LET m1 == RunCount(m, k - 1)
       IN IF m1.stack = <<>> THEN m1
          ELSE LET m2 == RunCount(m1, k - 1)
               IN IF m2.stack = <<>> THEN m2
                  ELSE LET m3 == RunCount(m2, k - 1)
                       IN IF m3.stack = <<>> THEN m3
                          ELSE RunCount(m3, k - 1)

countSolutions(board, limit) ==
  RunCount([grid |-> board, count |-> 0, limit |-> limit,
            stack |-> <<CountFrame(0)>>, ret |-> "none"], SolverFuel).count

(***************************************************************************)
(* The generator.  Its random draws are inputs: nums is what shuffle left  *)
(* in the nums array of each diagonal box, pick is                         *)
(* Math.floor(Math.random() * (maxClues - minClues + 1)), cells is what    *)
(* shuffle left in the array of cell indices.                              *)
(***************************************************************************)

\* generateSolvedGrid, before solving: the three diagonal boxes hold nums
DiagonalBoxes(nums) ==
  [i \in Cells |->
     IF RowOf(i) \div 3 = ColOf(i) \div 3
       THEN nums[(RowOf(i) \div 3) + 1][(RowOf(i) % 3) * 3 + (ColOf(i) % 3) + 1]
       ELSE 0]

\* generateSolvedGrid that returns the partial grid it falls back to
generateSolvedGridPartial(nums) == DiagonalBoxes(nums)

\* return solver.solve() || partial
generateSolvedGrid(nums) ==
  LET solved == solvePuzzle(DiagonalBoxes(nums))
  IN IF solved.found THEN solved.board ELSE DiagonalBoxes(nums)

Difficulties == {"easy", "medium", "hard", "expert", "master"}

targetClues ==
  [easy |-> <<36, 42>>, medium |-> <<30, 36>>, hard |-> <<26, 30>>,
   expert |-> <<22, 26>>, master |-> <<17, 22>>]

\* a loop that keeps every removal, without counting solutions
StepCreatePuzzleUnchecked(c, targetClueCount, cells) ==
  IF c.done THEN c
  ELSE IF c.k > Len(cells) \/ c.clueCount <= targetClueCount
    THEN [c EXCEPT !.done = TRUE]
  ELSE IF c.puzzle[cells[c.k]] = 0
    THEN [c EXCEPT !.k = @ + 1]
    ELSE [c EXCEPT !.puzzle[cells[c.k]] = 0, !.clueCount = @ - 1, !.k = @ + 1]

\* one turn of "for (const cell of cells)": c.k is the position in cells
StepCreatePuzzle(c, targetClueCount, cells) ==
  IF c.done THEN c
  ELSE IF c.k > Len(cells) \/ c.clueCount <= targetClueCount
    THEN [c EXCEPT !.done = TRUE]
  ELSE IF c.puzzle[cells[c.k]] = 0
    THEN [c EXCEPT !.k = @ + 1]
  ELSE IF countSolutions([c.puzzle EXCEPT ![cells[c.k]] = 0], 2) # 1
    THEN [c EXCEPT !.k = @ + 1]
    ELSE [c EXCEPT !.puzzle[cells[c.k]] = 0, !.clueCount = @ - 1, !.k = @ + 1]

\* 4^CreateFuel turns are more than the 81 of the loop
CreateFuel == 4

RECURSIVE RunCreatePuzzle(_, _, _, _)
\* up to 4^k turns of the loop, stopping when it is left
RunCreatePuzzle(c, targetClueCount, cells, k) ==
  IF k = 0 THEN StepCreatePuzzle(c, targetClueCount, cells)
  ELSE LET c1 == RunCreatePuzzle(c, targetClueCount, cells, k - 1)
       IN IF c1.done THEN c1
          ELSE LET c2 == RunCreatePuzzle(c1, targetClueCount, cells, k - 1)
               IN IF c2.done THEN c2
                  ELSE LET c3 == RunCreatePuzzle(c2, targetClueCount, cells, k - 1)
                       IN IF c3.done THEN c3
                          ELSE RunCreatePuzzle(c3, targetClueCount, cells, k - 1)

createPuzzle(solved, difficulty, pick, cells) ==
  RunCreatePuzzle([puzzle |-> solved, clueCount |-> 81, k |-> 1, done |-> FALSE],
                  targetClues[difficulty][1] + pick, cells, CreateFuel).puzzle

difficultyMultiplier ==
  [easy |-> 1, medium |-> 2, hard |-> 4, expert |-> 8, master |-> 16]

\* "Analyze techniques (simplified)": Math.floor(n * 0.6) is (n * 6) \div 10
Strategies(clueCount) ==
  LET n == 81 - clueCount
  IN IF clueCount >= 36
       THEN <<[title |-> "Naked Single", freq |-> n]>>
     ELSE IF clueCount >= 30
       THEN <<[title |-> "Naked Single", freq |-> (n * 6) \div 10],
              [title |-> "Hidden Single", freq |-> (n * 4) \div 10]>>
     ELSE IF clueCount >= 26
       THEN <<[title |-> "Naked Single", freq |-> (n * 4) \div 10],
              [title |-> "Hidden Single", freq |-> (n * 4) \div 10],
              [title |-> "Pointing Pair", freq |-> (n * 2) \div 10]>>
     ELSE <<[title |-> "Naked Single", freq |-> (n * 3) \div 10],
            [title |-> "Hidden Single", freq |-> (n * 3) \div 10],
            [title |-> "Naked Pair", freq |-> (n * 2) \div 10],
            [title |-> "X-Wing", freq |-> (n * 2) \div 10]>>

ClueCount(puzzle) == Cardinality({i \in Cells : puzzle[i] # 0})

\* the PuzzleResult of a puzzle carved from solution
PuzzleResult(puzzle, solution, difficulty) ==
  [puzzle |-> puzzle, solution |-> solution, difficulty |-> difficulty,
   difficultyScore |->
     (81 - ClueCount(puzzle)) * 10 * difficultyMultiplier[difficulty],
   strategies |-> Strategies(ClueCount(puzzle))]

generatePuzzle(difficulty, rnd) ==
  LET solution == generateSolvedGrid(rnd.nums)
  IN PuzzleResult(createPuzzle(solution, difficulty, rnd.pick, rnd.cells),
                  solution, difficulty)


(***************************************************************************)
(* The game store (store/game).  A GameBoard is a function from 0..80 to   *)
(* cells [value, isFixed, notes, isConflict]; value 0 is the source's      *)
(* null and the board [] of the initial state is <<>>.  An atom that holds *)
(* an object or null holds <<x>> or <<>>.  A handler is an operator from   *)
(* the store, the record of all atoms, to the store it leaves behind.      *)
(***************************************************************************)

RECURSIVE Iterate(_, _, _)
\* a loop of the code: Step is applied until the machine is done, at most
\* 4^k times
Iterate(Step(_), m, k) ==
  IF k = 0 THEN Step(m)
  ELSE LET m1 == Iterate(Step, m, k - 1)
       IN IF m1.done THEN m1
          ELSE LET m2 == Iterate(Step, m1, k - 1)
               IN IF m2.done THEN m2
                  ELSE LET m3 == Iterate(Step, m2, k - 1)
                       IN IF m3.done THEN m3
                          ELSE Iterate(Step, m3, k - 1)

\* f itself.  TLC keeps a function expression unevaluated, and evaluates it
\* anew at every application, until it has to compare it
Eager(f) == IF f = f THEN f ELSE f

\* the elements of a set of numbers in increasing order
SortedSeq(S) ==
  [k \in 1 .. Cardinality(S) |->
     CHOOSE x \in S : Cardinality({y \in S : y < x}) = k - 1]

InSeq(x, seq) == \E k \in 1 .. Len(seq) : seq[k] = x

getCandidatesAll(puzzle, i) ==
  IF puzzle[i] # 0 THEN {} ELSE ALL_CANDIDATES

getCandidates(puzzle, i) ==
  IF puzzle[i] # 0 THEN {}
  ELSE ALL_CANDIDATES \ {puzzle[PEERS[i][k]] : k \in 1 .. Len(PEERS[i])}

createGameBoard(puzzle) ==
  Eager([i \in Cells |->
           [value |-> puzzle[i],
            isFixed |-> puzzle[i] # 0,
            notes |-> getCandidates(puzzle, i),
            isConflict |-> FALSE]])

updateConflictsKept(board) ==
  Eager([i \in Cells |->
           [board[i] EXCEPT
              !.isConflict =
                \/ @
                \/ /\ board[i].value # 0
                   /\ \E k \in 1 .. Len(PEERS[i]) :
                        board[PEERS[i][k]].value = board[i].value]])

\* every flag is cleared; a filled cell is in conflict when a peer holds the
\* same value (the loop flags the cell and the peer: PEERS is symmetric, so
\* the flag of a cell is the one its own turn sets)
updateConflicts(board) ==
  Eager([i \in Cells |->
           [board[i] EXCEPT
              !.isConflict =
                /\ board[i].value # 0
                /\ \E k \in 1 .. Len(PEERS[i]) :
                     board[PEERS[i][k]].value = board[i].value]])

isSolvedFilled(board) == \A i \in Cells : board[i].value # 0

isSolved(board) ==
  \A i \in Cells : ~(board[i].value = 0 \/ board[i].isConflict)

gameBoardToBoard(gameBoard) == Eager([i \in Cells |-> gameBoard[i].value])

countFilled(board) == Cardinality({i \in Cells : board[i].value # 0})

\* a copy of every cell and of its notes
cloneBoard(board) ==
  Eager([i \in DOMAIN board |->
           [value |-> board[i].value, isFixed |-> board[i].isFixed,
            notes |-> board[i].notes, isConflict |-> board[i].isConflict]])

\* the limit of the history tree
MAX_HISTORY_NODES == 100

\* the id '' of the initial tree and the parentId null of a root: the code
\* tests both for falsiness only.  The ids generateId returns are 1, 2, ...
NoId == 0

initialGameState ==
  [board |-> <<>>, solution |-> <<>>, isComplete |-> FALSE, moveCount |-> 0,
   difficulty |-> "medium", difficultyScore |-> 0, strategies |-> <<>>]

initialHistoryTree == [nodes |-> <<>>, currentNodeId |-> NoId, rootId |-> NoId]

\* the store before the first game.  nextId counts the ids generateId has
\* issued in the running game.
InitialStore ==
  [gameState |-> initialGameState, historyTree |-> initialHistoryTree,
   history |-> <<>>, selectedCell |-> <<>>, pendingCellEdit |-> <<>>,
   noteMode |-> FALSE, currentHint |-> <<>>, difficulty |-> "medium",
   timeouts |-> <<>>, nextId |-> 1]

\* generateId: time and a random suffix; the model issues 1, 2, ... and so
\* takes it that no two ids of a game collide
generateId(s) == s.nextId

\* Date.now() when a node is made: the rank of the node among the nodes of
\* the game, a clock that never goes back
DateNow(s) == s.nextId

\* the text of a node's description, kept as its parts
Description(text, cell, value, auto, added, removed) ==
  [text |-> text, cell |-> cell, value |-> value, auto |-> auto,
   added |-> added, removed |-> removed]

\* getPathToNode: one turn of the while loop
StepPath(m, nodes) ==
  IF m.done THEN m
  ELSE IF m.current \notin DOMAIN nodes THEN [m EXCEPT !.done = TRUE]
  ELSE IF nodes[m.current].parentId = NoId
       THEN [m EXCEPT !.path = @ \cup {m.current}, !.done = TRUE]
       ELSE [m EXCEPT !.path = @ \cup {m.current},
                      !.current = nodes[m.current].parentId]

\* the turns a loop over the nodes of a tree may take: 4^PathFuel
PathFuel == 4

getPathToNodeEmpty(nodes, nodeId) == {}

getPathToNode(nodes, nodeId) ==
  Iterate(LAMBDA m : StepPath(m, nodes),
          [path |-> {}, current |-> nodeId, done |-> FALSE], PathFuel).path

\* Object.values(tree.nodes) without the current path and the root, sorted
\* by timestamp; the sort is stable and the nodes come in insertion order,
\* which is the order of their ids
SortedNodes(tree, currentPath) ==
  LET rest == {id \in DOMAIN tree.nodes : id \notin currentPath /\ id # tree.rootId}
      Before(a, b) ==
        \/ tree.nodes[a].timestamp < tree.nodes[b].timestamp
        \/ tree.nodes[a].timestamp = tree.nodes[b].timestamp /\ a < b
      rank == Eager([x \in rest |-> Cardinality({y \in rest : Before(y, x)})])
  IN Eager([k \in 1 .. Cardinality(rest) |->
              CHOOSE x \in rest : rank[x] = k - 1])

\* pruneHistoryTree: one turn of the loop that fills nodesToPrune
StepPrune(m, tree, sortedNodes, pruneCount, currentPath) ==
  IF m.done THEN m
  ELSE IF m.i > Len(sortedNodes) \/ Len(m.nodesToPrune) >= pruneCount
  THEN [m EXCEPT !.done = TRUE]
  ELSE LET node == tree.nodes[sortedNodes[m.i]]
           isLeaf ==
             \/ Len(node.childrenIds) = 0
             \/ \A k \in 1 .. Len(node.childrenIds) :
                  InSeq(node.childrenIds[k], m.nodesToPrune)
       IN IF isLeaf /\ node.id \notin m.visited /\ node.id \notin currentPath
          THEN [m EXCEPT !.i = @ + 1,
                         !.nodesToPrune = Append(@, node.id),
                         !.visited = @ \cup {node.id}]
          ELSE [m EXCEPT !.i = @ + 1]

\* pruneHistoryTree: the loop that fills nodesToPrune
NodesToPrune(tree, sortedNodes, currentPath) ==
  Iterate(LAMBDA m : StepPrune(m, tree, sortedNodes,
                               Cardinality(DOMAIN tree.nodes) - MAX_HISTORY_NODES + 10,
                               currentPath),
          [i |-> 1, nodesToPrune |-> <<>>, visited |-> {}, done |-> FALSE],
          PathFuel).nodesToPrune

\* pruned nodes deleted without a change to their parents
DeleteNodesKeepLinks(tree, nodesToPrune) ==
  LET pruned == {nodesToPrune[k] : k \in 1 .. Len(nodesToPrune)}
  IN IF Len(nodesToPrune) = 0 THEN tree
     ELSE [tree EXCEPT !.nodes =
             Eager([id \in DOMAIN tree.nodes \ pruned |-> tree.nodes[id]])]

\* pruneHistoryTree: a pruned node is taken out of its parent's children
\* and deleted
DeleteNodes(tree, nodesToPrune) ==
  LET pruned == {nodesToPrune[k] : k \in 1 .. Len(nodesToPrune)}
  IN IF Len(nodesToPrune) = 0 THEN tree
     ELSE [tree EXCEPT !.nodes =
             Eager([id \in DOMAIN tree.nodes \ pruned |->
                      [tree.nodes[id] EXCEPT
                         !.childrenIds =
                           SelectSeq(@, LAMBDA cid :
                                          ~(cid \in pruned
                                              /\ tree.nodes[cid].parentId = id))]])]

\* pruneHistoryTree once the tree is over the limit
PruneOffPath(tree, currentPath) ==
  DeleteNodes(tree, NodesToPrune(tree, SortedNodes(tree, currentPath), currentPath))

pruneHistoryTree(tree) ==
  IF Cardinality(DOMAIN tree.nodes) <= MAX_HISTORY_NODES THEN tree
  ELSE PruneOffPath(tree, getPathToNode(tree.nodes, tree.currentNodeId))

eliminateFromPeersNot(board, cell, value) == board

\* eliminateFromPeers for the row of the cell only
eliminateFromPeersInRow(board, cell, value) ==
  Eager([j \in Cells |->
           IF RowOf(j) = RowOf(cell)
           THEN [board[j] EXCEPT !.notes = @ \ {value}]
           ELSE board[j]])

\* eliminateFromPeers: the value leaves the notes of the row, the column and
\* the box of the cell
eliminateFromPeers(board, cell, value) ==
  Eager([j \in Cells |->
           IF \/ RowOf(j) = RowOf(cell)
              \/ ColOf(j) = ColOf(cell)
              \/ (/\ RowOf(j) \div 3 = RowOf(cell) \div 3
                  /\ ColOf(j) \div 3 = ColOf(cell) \div 3)
           THEN [board[j] EXCEPT !.notes = @ \ {value}]
           ELSE board[j]])

\* the only element of a set of one
TheOne(S) == CHOOSE v \in S : TRUE

\* autoFillNakedSingles and the loop that calls it until it fills nothing.
\* One turn fills the next cell of the pass that has one candidate, or ends
\* the pass; count is autoFillCount.
StepAutoFill(m) ==
  LET singles ==
        {i \in m.from .. 80 :
           /\ m.board[i].value = 0
           /\ ~m.board[i].isFixed
           /\ Cardinality(m.board[i].notes) = 1}
  IN IF m.done THEN m
     ELSE IF singles # {}
     THEN LET i == Least(singles)
              value == TheOne(m.board[i].notes)
          IN [m EXCEPT
                !.board = eliminateFromPeers(
                            [m.board EXCEPT ![i].value = value, ![i].notes = {}],
                            i, value),
                !.from = i + 1,
                !.filled = TRUE]
     ELSE IF m.filled
     THEN [m EXCEPT !.from = 0, !.filled = FALSE, !.count = @ + 1]
     ELSE [m EXCEPT !.done = TRUE]

\* the turns the auto-fill loop may take: 4^AutoFillFuel
AutoFillFuel == 4

\* one call of autoFillNakedSingles in place of the loop
StepAutoFillOnce(m) ==
  IF m.done THEN m
  ELSE IF m.from > 80 THEN [m EXCEPT !.done = TRUE]
  ELSE IF /\ m.board[m.from].value = 0
          /\ ~m.board[m.from].isFixed
          /\ Cardinality(m.board[m.from].notes) = 1
  THEN [m EXCEPT
          !.board = eliminateFromPeers(
                      [m.board EXCEPT ![m.from].value = TheOne(m.board[m.from].notes),
                                      ![m.from].notes = {}],
                      m.from, TheOne(m.board[m.from].notes)),
          !.from = @ + 1,
          !.filled = TRUE,
          !.count = 1]
  ELSE [m EXCEPT !.from = @ + 1]

autoFillNakedSinglesOnce(board) ==
  Iterate(StepAutoFillOnce,
          [board |-> board, from |-> 0, filled |-> FALSE, count |-> 0,
           done |-> FALSE],
          AutoFillFuel)

autoFillNakedSingles(board) ==
  Iterate(StepAutoFill,
          [board |-> board, from |-> 0, filled |-> FALSE, count |-> 0,
           done |-> FALSE],
          AutoFillFuel)

NewNodeStale(s, board, newMoveCount, description) ==
  [id |-> generateId(s), board |-> cloneBoard(board),
   moveCount |-> s.gameState.moveCount, timestamp |-> DateNow(s),
   description |-> description, parentId |-> s.historyTree.currentNodeId,
   childrenIds |-> <<>>, filledCount |-> countFilled(board)]

\* the node a commit makes for the board
NewNode(s, board, newMoveCount, description) ==
  [id |-> generateId(s), board |-> cloneBoard(board),
   moveCount |-> newMoveCount, timestamp |-> DateNow(s),
   description |-> description, parentId |-> s.historyTree.currentNodeId,
   childrenIds |-> <<>>, filledCount |-> countFilled(board)]

WithChildTouched(tree, newNode) ==
  [tree EXCEPT
     !.nodes = Eager([id \in DOMAIN tree.nodes \cup {newNode.id} |->
                        IF id = newNode.id THEN newNode
                        ELSE IF id = tree.currentNodeId
                        THEN [tree.nodes[id] EXCEPT
                                !.childrenIds = Append(@, newNode.id),
                                !.timestamp = newNode.timestamp]
                        ELSE tree.nodes[id]]),
     !.currentNodeId = newNode.id]

WithChildUnlinked(tree, newNode) ==
  [tree EXCEPT
     !.nodes = Eager([id \in DOMAIN tree.nodes \cup {newNode.id} |->
                        IF id = newNode.id THEN newNode ELSE tree.nodes[id]]),
     !.currentNodeId = newNode.id]

\* the tree with newNode as the last child of the current node, and current
WithChild(tree, newNode) ==
  [tree EXCEPT
     !.nodes =
       Eager([id \in DOMAIN tree.nodes \cup {newNode.id} |->
                IF id = newNode.id THEN newNode
                ELSE IF id = tree.currentNodeId
                THEN [tree.nodes[id] EXCEPT !.childrenIds = Append(@, newNode.id)]
                ELSE tree.nodes[id]]),
     !.currentNodeId = newNode.id]

AddToHistoryTreeLinear(s, board, newMoveCount, description) ==
  [s EXCEPT
     !.historyTree =
       pruneHistoryTree(
         WithChild([@ EXCEPT !.nodes[s.historyTree.currentNodeId].childrenIds = <<>>],
                   NewNode(s, board, newMoveCount, description))),
     !.nextId = @ + 1]

\* the end of the three committing handlers: a node for the board is made a
\* child of the current node and becomes current, the tree is pruned
AddToHistoryTree(s, board, newMoveCount, description) ==
  [s EXCEPT
     !.historyTree =
       pruneHistoryTree(WithChild(@, NewNode(s, board, newMoveCount, description))),
     !.nextId = @ + 1]

\* the legacy history gets the board and move count before the move
PushHistory(s, board) ==
  [s EXCEPT !.history =
     Append(@, [board |-> board, moveCount |-> s.gameState.moveCount])]

newGameAtom(s, result) ==
  LET board == createGameBoard(result.puzzle)
      rootId == 1
      rootNode ==
        [id |-> rootId, board |-> cloneBoard(board), moveCount |-> 0,
         timestamp |-> 1,
         description |-> Description("Start", 0, 0, 0, {}, {}),
         parentId |-> NoId, childrenIds |-> <<>>,
         filledCount |-> countFilled(board)]
  IN [s EXCEPT
        !.gameState =
          [board |-> board, solution |-> result.solution,
           isComplete |-> FALSE, moveCount |-> 0,
           difficulty |-> result.difficulty,
           difficultyScore |-> result.difficultyScore,
           strategies |-> result.strategies],
        !.historyTree =
          [nodes |-> [id \in {rootId} |-> rootNode],
           currentNodeId |-> rootId, rootId |-> rootId],
        !.history = <<>>,
        !.selectedCell = <<>>,
        !.pendingCellEdit = <<>>,
        !.noteMode = FALSE,
        !.nextId = rootId + 1]

\* the end of setCellValueAtom and commitCellValueAtom: the board goes to
\* the legacy history, updatedBoard to the tree and to the game state
CommitBoard(s, updatedBoard, description) ==
  [AddToHistoryTree(PushHistory(s, cloneBoard(s.gameState.board)), updatedBoard,
                    s.gameState.moveCount + 1, description)
     EXCEPT !.gameState =
       [s.gameState EXCEPT !.board = updatedBoard,
                           !.isComplete = isSolved(updatedBoard),
                           !.moveCount = s.gameState.moveCount + 1]]

CommitFilledPerFill(s, filled, text, i, value) ==
  IF filled.count = 0
  THEN CommitBoard(s, updateConflicts(filled.board),
                   Description(text, i, value, filled.count, {}, {}))
  ELSE CommitBoard(CommitBoard(s, updateConflicts(filled.board),
                               Description(text, i, value, 0, {}, {})),
                   updateConflicts(filled.board),
                   Description("auto", i, value, filled.count, {}, {}))

\* filled is what the auto-fill loop leaves of the edited board
CommitFilled(s, filled, text, i, value) ==
  CommitBoard(s, updateConflicts(filled.board),
              Description(text, i, value, filled.count, {}, {}))

\* setCellValueAtom: note mode toggles the note; otherwise the value, or
\* null, is set
EditCell(s, i, value) ==
  IF s.noteMode /\ value # 0
  THEN [s.gameState.board EXCEPT
          ![i].notes = IF value \in @ THEN @ \ {value} ELSE @ \cup {value}]
  ELSE IF value # 0
  THEN eliminateFromPeers(
         [s.gameState.board EXCEPT ![i].value = value, ![i].notes = {}], i, value)
  ELSE [s.gameState.board EXCEPT ![i].value = value, ![i].notes = {}]

setCellValueAtomUnguarded(s, value) ==
  IF s.selectedCell = <<>> THEN s
  ELSE IF s.gameState.board = <<>> THEN s
  ELSE IF s.gameState.isComplete THEN s
  ELSE CommitFilled(
         s, autoFillNakedSingles(EditCell(s, s.selectedCell[1], value)),
         IF s.noteMode /\ value # 0
         THEN (IF value \in s.gameState.board[s.selectedCell[1]].notes
               THEN "-" ELSE "+")
         ELSE IF value # 0 THEN "=" ELSE "x",
         s.selectedCell[1], value)

setCellValueAtom(s, value) ==
  IF s.selectedCell = <<>> THEN s
  \* on the empty board the read of the cell throws before any write
  ELSE IF s.gameState.board = <<>> THEN s
  ELSE IF \/ s.gameState.board[s.selectedCell[1]].isFixed
          \/ s.gameState.isComplete
  THEN s
  ELSE CommitFilled(
         s, autoFillNakedSingles(EditCell(s, s.selectedCell[1], value)),
         IF s.noteMode /\ value # 0
         THEN (IF value \in s.gameState.board[s.selectedCell[1]].notes
               THEN "-" ELSE "+")
         ELSE IF value # 0 THEN "=" ELSE "x",
         s.selectedCell[1], value)

undoAtomForget(s) ==
  LET tree == s.historyTree
      currentNode == tree.nodes[tree.currentNodeId]
      parentNode == tree.nodes[currentNode.parentId]
  IN IF tree.currentNodeId \notin DOMAIN tree.nodes THEN s
     ELSE IF currentNode.parentId = NoId THEN s
     ELSE IF currentNode.parentId \notin DOMAIN tree.nodes THEN s
     ELSE [s EXCEPT
             !.historyTree =
               DeleteNodes([tree EXCEPT !.currentNodeId = parentNode.id],
                           <<currentNode.id>>),
             !.gameState =
               [@ EXCEPT !.board = cloneBoard(parentNode.board),
                         !.moveCount = parentNode.moveCount,
                         !.isComplete = FALSE],
             !.history = SubSeq(@, 1, Len(@) - 1)]

\* undoAtom that leaves isComplete as it was
undoAtomStillComplete(s) ==
  LET tree == s.historyTree
      currentNode == tree.nodes[tree.currentNodeId]
      parentNode == tree.nodes[currentNode.parentId]
  IN IF tree.currentNodeId \notin DOMAIN tree.nodes THEN s
     ELSE IF currentNode.parentId = NoId THEN s
     ELSE IF currentNode.parentId \notin DOMAIN tree.nodes THEN s
     ELSE [s EXCEPT
             !.historyTree = [tree EXCEPT !.currentNodeId = parentNode.id],
             !.gameState =
               [@ EXCEPT !.board = cloneBoard(parentNode.board),
                         !.moveCount = parentNode.moveCount],
             !.history = SubSeq(@, 1, Len(@) - 1)]

undoAtom(s) ==
  LET tree == s.historyTree
      currentNode == tree.nodes[tree.currentNodeId]
      parentNode == tree.nodes[currentNode.parentId]
  IN IF tree.currentNodeId \notin DOMAIN tree.nodes THEN s
     ELSE IF currentNode.parentId = NoId THEN s
     ELSE IF currentNode.parentId \notin DOMAIN tree.nodes THEN s
     ELSE [s EXCEPT
             !.historyTree = [tree EXCEPT !.currentNodeId = parentNode.id],
             !.gameState =
               [@ EXCEPT !.board = cloneBoard(parentNode.board),
                         !.moveCount = parentNode.moveCount,
                         !.isComplete = FALSE],
             !.history = SubSeq(@, 1, Len(@) - 1)]

\* restoreToNodeAtom: the nodes below the root on the way to the target
StepRestorePath(m, nodes) ==
  IF m.done THEN m
  ELSE IF m.current \notin DOMAIN nodes THEN [m EXCEPT !.done = TRUE]
  ELSE IF nodes[m.current].parentId = NoId THEN [m EXCEPT !.done = TRUE]
  ELSE [m EXCEPT !.path = <<nodes[m.current]>> \o @,
                 !.current = nodes[m.current].parentId]

restoreToNodeAtomStale(s, nodeId) ==
  IF nodeId \notin DOMAIN s.historyTree.nodes THEN s
  ELSE [s EXCEPT !.historyTree.currentNodeId = nodeId]

restoreToNodeAtom(s, nodeId) ==
  LET tree == s.historyTree
      targetNode == tree.nodes[nodeId]
      path ==
        Iterate(LAMBDA m : StepRestorePath(m, tree.nodes),
                [path |-> <<>>, current |-> nodeId, done |-> FALSE],
                PathFuel).path
      \* all of them but the target go to the legacy history
      newHistory ==
        [k \in 1 .. Len(path) - 1 |->
           [board |-> cloneBoard(path[k].board), moveCount |-> path[k].moveCount]]
  IN IF nodeId \notin DOMAIN tree.nodes THEN s
     ELSE [s EXCEPT
             !.historyTree = [tree EXCEPT !.currentNodeId = nodeId],
             !.gameState =
               [@ EXCEPT !.board = cloneBoard(targetNode.board),
                         !.moveCount = targetNode.moveCount,
                         !.isComplete = isSolved(targetNode.board)],
             !.history = newHistory]

clearCellAtomUnguarded(s) == setCellValueAtomUnguarded(s, 0)

clearCellAtom(s) == setCellValueAtom(s, 0)

\* toggleNoteAtom that toggles the note as setCellValueAtom does in note mode
toggleNoteAtomCommitted(s, value) ==
  [setCellValueAtom([s EXCEPT !.noteMode = TRUE], value)
     EXCEPT !.noteMode = s.noteMode]

toggleNoteAtom(s, value) ==
  LET state == s.gameState
      i == s.selectedCell[1]
      cell == state.board[i]
  IN IF s.selectedCell = <<>> THEN s
     ELSE IF state.board = <<>> THEN s
     ELSE IF cell.isFixed \/ cell.value # 0 THEN s
     ELSE [s EXCEPT !.gameState.board[i].notes =
             IF value \in @ THEN @ \ {value} ELSE @ \cup {value}]

commitCellValueAtom(s, i, value) ==
  IF s.gameState.board = <<>> THEN s
  ELSE IF s.gameState.board[i].isFixed THEN s
  ELSE CommitFilled(
         s,
         autoFillNakedSingles(
           eliminateFromPeers(
             [s.gameState.board EXCEPT ![i].value = value, ![i].notes = {}],
             i, value)),
         "=", i, value)

\* commitNoteChangesAtom that leaves moveCount of the game as it was
commitNoteChangesAtomUncounted(s, i, originalNotes, newNotes) ==
  IF s.gameState.board = <<>> THEN s
  ELSE IF newNotes \ originalNotes = {} /\ originalNotes \ newNotes = {} THEN s
  ELSE AddToHistoryTree(
         PushHistory(s, [cloneBoard(s.gameState.board) EXCEPT
                           ![i].notes = originalNotes]),
         s.gameState.board, s.gameState.moveCount + 1,
         Description("notes", i, 0, 0, newNotes \ originalNotes,
                     originalNotes \ newNotes))

commitNoteChangesAtom(s, i, originalNotes, newNotes) ==
  IF s.gameState.board = <<>> THEN s
  ELSE IF newNotes \ originalNotes = {} /\ originalNotes \ newNotes = {} THEN s
  ELSE [AddToHistoryTree(
          \* the legacy history gets the board with the original notes
          PushHistory(s, [cloneBoard(s.gameState.board) EXCEPT
                            ![i].notes = originalNotes]),
          s.gameState.board, s.gameState.moveCount + 1,
          Description("notes", i, 0, 0, newNotes \ originalNotes,
                      originalNotes \ newNotes))
          EXCEPT !.gameState.moveCount = s.gameState.moveCount + 1]

\* selectedCellAtom: the pending edit of cell i is committed
\* CommitPending that commits one note as a note change
CommitPendingAsNotes(s, i, originalNotes, currentNotes) ==
  IF s.gameState.board[i].isFixed \/ s.gameState.board[i].value # 0 THEN s
  ELSE IF Cardinality(currentNotes) >= 1 /\ currentNotes # originalNotes
  THEN commitNoteChangesAtom(s, i, originalNotes, currentNotes)
  ELSE s

CommitPending(s, i, originalNotes, currentNotes) ==
  IF s.gameState.board[i].isFixed \/ s.gameState.board[i].value # 0 THEN s
  ELSE IF Cardinality(currentNotes) = 1
  THEN commitCellValueAtom(s, i, TheOne(currentNotes))
  ELSE IF /\ Cardinality(currentNotes) > 1
          /\ \/ Cardinality(currentNotes) # Cardinality(originalNotes)
             \/ \E n \in currentNotes : n \notin originalNotes
             \/ \E n \in originalNotes : n \notin currentNotes
  THEN commitNoteChangesAtom(s, i, originalNotes, currentNotes)
  ELSE s

\* selectedCellAtom: what is tracked of the cell that is selected, in the
\* state read before the commit
TrackCell(s, newValue) ==
  IF newValue # <<>> /\ s.gameState.board # <<>>
  THEN IF /\ ~s.gameState.board[newValue[1]].isFixed
          /\ s.gameState.board[newValue[1]].value = 0
       THEN <<[cell |-> newValue[1],
               originalNotes |-> s.gameState.board[newValue[1]].notes]>>
       ELSE <<>>
  ELSE <<>>

\* the write of selectedCellAtom: the pending edit of the cell that is left
\* is committed, then the new cell is selected and, if it can be edited,
\* tracked
selectedCellAtom(s, newValue) ==
  [(IF s.pendingCellEdit # <<>> /\ s.gameState.board # <<>>
    THEN CommitPending(s, s.pendingCellEdit[1].cell,
                       s.pendingCellEdit[1].originalNotes,
                       s.gameState.board[s.pendingCellEdit[1].cell].notes)
    ELSE s)
     EXCEPT !.pendingCellEdit = TrackCell(s, newValue),
            !.selectedCell = newValue]

(***************************************************************************)
(* The hint engine (lib/solver).  A HintStep is [technique,                *)
(* affectedCells]; an affected cell is [cell, value, eliminated] with      *)
(* value 0 where the source leaves it undefined.  getHint returns <<h>>    *)
(* or, for null, <<>>.                                                     *)
(***************************************************************************)

RowCells(r) == {r * 9 + c : c \in 0 .. 8}
ColCells(c) == {r * 9 + c : r \in 0 .. 8}
BoxCells(b) ==
  {((b \div 3) * 3 + r) * 9 + (b % 3) * 3 + c : r \in 0 .. 2, c \in 0 .. 2}

\* the empty cells of a unit whose notes have num
Places(board, unit, num) ==
  {i \in unit : board[i].value = 0 /\ num \in board[i].notes}

PlaceValue(technique, cell, value) ==
  <<[technique |-> technique,
     affectedCells |-> <<[cell |-> cell, value |-> value, eliminated |-> {}]>>]>>

\* eliminations, in the order of the cells; Nums(cell) is what leaves a cell
Eliminate(technique, cells, Nums(_)) ==
  <<[technique |-> technique,
     affectedCells |->
       [k \in 1 .. Cardinality(cells) |->
          [cell |-> SortedSeq(cells)[k], value |-> 0,
           eliminated |-> Nums(SortedSeq(cells)[k])]]]>>

findNakedSingle(board) ==
  LET singles ==
        {i \in Cells : board[i].value = 0 /\ Cardinality(board[i].notes) = 1}
  IN IF singles = {} THEN <<>>
     ELSE PlaceValue("Naked Single", Least(singles),
                     TheOne(board[Least(singles)].notes))

\* the first unit and number, in the order of the loops, with one place
HiddenSingleIn(board, Unit(_), technique) ==
  LET found ==
        {u * 9 + (n - 1) : u \in 0 .. 8, n \in Digits} \cap
        {k \in 0 .. 80 : Cardinality(Places(board, Unit(k \div 9), (k % 9) + 1)) = 1}
      first == Least(found)
  IN IF found = {} THEN <<>>
     ELSE PlaceValue(technique,
                     TheOne(Places(board, Unit(first \div 9), (first % 9) + 1)),
                     (first % 9) + 1)

\* the first of two hints that is not null
FirstHint(h, next) == IF h # <<>> THEN h ELSE next

findHiddenSingle(board) ==
  FirstHint(HiddenSingleIn(board, RowCells, "Hidden Single (Row)"),
            FirstHint(HiddenSingleIn(board, ColCells, "Hidden Single (Column)"),
                      HiddenSingleIn(board, BoxCells, "Hidden Single (Box)")))

\* PointingEliminations that does not leave out the cells of the box
PointingEliminationsInBox(board, b, num) ==
  LET places == Places(board, BoxCells(b), num)
      rows == {RowOf(p) : p \in places}
      cols == {ColOf(p) : p \in places}
      inRow == Places(board, RowCells(TheOne(rows)), num)
      inCol == Places(board, ColCells(TheOne(cols)), num)
  IN IF Cardinality(places) < 2 \/ Cardinality(places) > 3 THEN {}
     ELSE IF Cardinality(rows) = 1 /\ inRow # {} THEN inRow
     ELSE IF Cardinality(cols) = 1 /\ inCol # {} THEN inCol
     ELSE {}

\* what a box and a number eliminate: the other cells of the row, else of
\* the column, that the two or three places of the number share
PointingEliminations(board, b, num) ==
  LET places == Places(board, BoxCells(b), num)
      rows == {RowOf(p) : p \in places}
      cols == {ColOf(p) : p \in places}
      inRow ==
        {i \in RowCells(TheOne(rows)) :
           ColOf(i) \div 3 # b % 3 /\ board[i].value = 0 /\ num \in board[i].notes}
      inCol ==
        {i \in ColCells(TheOne(cols)) :
           RowOf(i) \div 3 # b \div 3 /\ board[i].value = 0 /\ num \in board[i].notes}
  IN IF Cardinality(places) < 2 \/ Cardinality(places) > 3 THEN {}
     ELSE IF Cardinality(rows) = 1 /\ inRow # {} THEN inRow
     ELSE IF Cardinality(cols) = 1 /\ inCol # {} THEN inCol
     ELSE {}

findPointingPair(board) ==
  LET found ==
        {k \in 0 .. 80 : PointingEliminations(board, k \div 9, (k % 9) + 1) # {}}
      first == Least(found)
  IN IF found = {} THEN <<>>
     ELSE Eliminate("Pointing Pair",
                    PointingEliminations(board, first \div 9, (first % 9) + 1),
                    LAMBDA i : {(first % 9) + 1})

\* NakedPairEliminations that does not leave out the two cells of the pair
NakedPairEliminationsWithPair(board, row, col1, col2) ==
  LET c1 == board[row * 9 + col1]
      c2 == board[row * 9 + col2]
  IN IF /\ col1 < col2
        /\ c1.value = 0 /\ Cardinality(c1.notes) = 2
        /\ c2.value = 0 /\ Cardinality(c2.notes) = 2
        /\ \A n \in c1.notes : n \in c2.notes
        /\ \E i \in RowCells(row) :
             /\ ColOf(i) # col1 /\ ColOf(i) # col2
             /\ board[i].value = 0
             /\ board[i].notes \cap c1.notes # {}
     THEN {i \in RowCells(row) :
             board[i].value = 0 /\ board[i].notes \cap c1.notes # {}}
     ELSE {}

\* what two cells of a row eliminate when both hold the same two notes
NakedPairEliminations(board, row, col1, col2) ==
  LET c1 == board[row * 9 + col1]
      c2 == board[row * 9 + col2]
  IN IF /\ col1 < col2
        /\ c1.value = 0 /\ Cardinality(c1.notes) = 2
        /\ c2.value = 0 /\ Cardinality(c2.notes) = 2
        /\ \A n \in c1.notes : n \in c2.notes
     THEN {i \in RowCells(row) :
             /\ ColOf(i) # col1 /\ ColOf(i) # col2
             /\ board[i].value = 0
             /\ board[i].notes \cap c1.notes # {}}
     ELSE {}

\* rows only: the source leaves columns and boxes out
findNakedPair(board) ==
  LET found ==
        {k \in 0 .. 728 :
           NakedPairEliminations(board, k \div 81, (k \div 9) % 9, k % 9) # {}}
      first == Least(found)
      nums == board[(first \div 81) * 9 + ((first \div 9) % 9)].notes
  IN IF found = {} THEN <<>>
     ELSE Eliminate("Naked Pair",
                    NakedPairEliminations(board, first \div 81,
                                          (first \div 9) % 9, first % 9),
                    LAMBDA i : nums \cap board[i].notes)

\* SolutionHint for the last empty cell instead of the first
SolutionHintLast(board, solution) ==
  LET open == {i \in Cells : board[i].value = 0 /\ solution.board[i] # 0}
  IN IF ~solution.found THEN <<>>
     ELSE IF open = {} THEN <<>>
     ELSE PlaceValue("Solution Check", 80 - Least({80 - i : i \in open}),
                     solution.board[80 - Least({80 - i : i \in open})])

\* findSolutionHint once the puzzle is solved
SolutionHint(board, solution) ==
  LET open == {i \in Cells : board[i].value = 0 /\ solution.board[i] # 0}
  IN IF ~solution.found THEN <<>>
     ELSE IF open = {} THEN <<>>
     ELSE PlaceValue("Solution Check", Least(open), solution.board[Least(open)])

findSolutionHint(board) ==
  SolutionHint(board, solvePuzzle(gameBoardToBoard(board)))

\* getHint without the solver to fall back on
getHintNoFallback(board) ==
  IF \A i \in Cells : board[i].value # 0 THEN <<>>
  ELSE FirstHint(findNakedSingle(board),
         FirstHint(findHiddenSingle(board),
           FirstHint(findPointingPair(board), findNakedPair(board))))

\* getHint with the hidden singles tried before the naked singles
getHintHiddenFirst(board) ==
  IF \A i \in Cells : board[i].value # 0 THEN <<>>
  ELSE FirstHint(findHiddenSingle(board),
         FirstHint(findNakedSingle(board),
           FirstHint(findPointingPair(board),
             FirstHint(findNakedPair(board), findSolutionHint(board)))))

getHint(board) ==
  IF \A i \in Cells : board[i].value # 0 THEN <<>>
  ELSE FirstHint(findNakedSingle(board),
         FirstHint(findHiddenSingle(board),
           FirstHint(findPointingPair(board),
             FirstHint(findNakedPair(board), findSolutionHint(board)))))

\* showHintAtom once getHint has returned
ShowHint1(s, hint) ==
  IF hint # <<>> /\ Len(hint[1].affectedCells) > 0
  THEN selectedCellAtom([s EXCEPT !.currentHint = hint],
                        <<hint[1].affectedCells[1].cell>>)
  ELSE [s EXCEPT !.currentHint = hint]

showHintAtom(s) ==
  IF s.gameState.isComplete \/ s.gameState.board = <<>> THEN s
  ELSE ShowHint1(s, getHint(s.gameState.board))

\* applyHintAtom: a placement selects the cell and leaves the rest to a
\* setTimeout callback, an elimination selects the cell and clears the hint
applyHintAtom(s) ==
  IF s.currentHint = <<>> THEN s
  ELSE IF Len(s.currentHint[1].affectedCells) = 0 THEN s
  ELSE IF s.currentHint[1].affectedCells[1].value # 0
  THEN [selectedCellAtom(s, <<s.currentHint[1].affectedCells[1].cell>>) EXCEPT
          !.timeouts = Append(@, s.currentHint[1].affectedCells[1].value)]
  ELSE IF s.currentHint[1].affectedCells[1].eliminated # {}
  THEN [selectedCellAtom(s, <<s.currentHint[1].affectedCells[1].cell>>) EXCEPT
          !.currentHint = <<>>]
  ELSE s

\* the callback applyHintAtom has left with setTimeout
applyHintTimeout(s) ==
  [setCellValueAtom([s EXCEPT !.noteMode = FALSE, !.timeouts = Tail(@)],
                    s.timeouts[1])
     EXCEPT !.currentHint = <<>>]

closeHintAtom(s) == [s EXCEPT !.currentHint = <<>>]

hintAtom(s) ==
  IF s.selectedCell = <<>> THEN s
  ELSE IF s.gameState.board = <<>> THEN s
  ELSE IF \/ s.gameState.board[s.selectedCell[1]].isFixed
          \/ s.gameState.isComplete
  THEN s
  ELSE IF s.gameState.solution[s.selectedCell[1]] = 0 THEN s
  ELSE [setCellValueAtom([s EXCEPT !.noteMode = FALSE],
                         s.gameState.solution[s.selectedCell[1]])
          EXCEPT !.noteMode = s.noteMode]

\* the atoms as one store, and a store as the atoms
Store ==
  [gameState |-> gameState, historyTree |-> historyTree, history |-> history,
   selectedCell |-> selectedCell, pendingCellEdit |-> pendingCellEdit,
   noteMode |-> noteMode, currentHint |-> currentHint,
   difficulty |-> difficultyAtom, timeouts |-> timeouts, nextId |-> nextId]

StoreIs(s) ==
  /\ gameState = s.gameState
  /\ historyTree = s.historyTree
  /\ history = s.history
  /\ selectedCell = s.selectedCell
  /\ pendingCellEdit = s.pendingCellEdit
  /\ noteMode = s.noteMode
  /\ currentHint = s.currentHint
  /\ difficultyAtom = s.difficulty
  /\ timeouts = s.timeouts
  /\ nextId = s.nextId

Becomes(s) ==
  /\ gameState' = s.gameState
  /\ historyTree' = s.historyTree
  /\ history' = s.history
  /\ selectedCell' = s.selectedCell
  /\ pendingCellEdit' = s.pendingCellEdit
  /\ noteMode' = s.noteMode
  /\ currentHint' = s.currentHint
  /\ difficultyAtom' = s.difficulty
  /\ timeouts' = s.timeouts
  /\ nextId' = s.nextId
(***************************************************************************)
(* Inputs of the pure functions.  Base is a complete valid grid; the small *)
(* inputs clear some cells of an unavoidable set of it (rows 0 and 1 hold  *)
(* the same three digits in columns 0, 3 and 6) and may overwrite one clue *)
(* with a digit that makes the clues contradictory.                        *)
(***************************************************************************)

Base == [i \in Cells |-> ((RowOf(i) * 3 + (RowOf(i) \div 3) + ColOf(i)) % 9) + 1]

BlankCells == {0, 3, 6, 9, 12, 15}
OverrideCells == {9, 12, 80}
OverrideDigits == {1}

\* the largest limit passed to countSolutions
MaxLimit == 2

Blanked(b, S) == [i \in Cells |-> IF i \in S THEN 0 ELSE b[i]]

SmallInputs ==
  {Blanked(Base, S) : S \in SUBSET BlankCells}
    \cup {[Blanked(Base, S) EXCEPT ![c] = d] :
            S \in SUBSET BlankCells, c \in OverrideCells, d \in OverrideDigits}

\* a puzzle of 25 clues with the single completion SparseSolution
Sparse ==
  [i \in Cells |->
     << 0, 0, 0, 0, 0, 0, 7, 9, 0,
        4, 0, 6, 7, 2, 0, 0, 3, 0,
        0, 8, 0, 0, 1, 0, 0, 5, 0,
        0, 3, 0, 5, 0, 0, 1, 0, 0,
        2, 7, 5, 8, 0, 0, 0, 0, 0,
        0, 0, 0, 0, 3, 0, 0, 8, 0,
        3, 4, 0, 6, 0, 5, 0, 0, 0,
        9, 0, 0, 0, 7, 0, 0, 0, 0,
        0, 0, 0, 0, 0, 0, 0, 0, 0 >>[i + 1]]

SparseSolution ==
  [i \in Cells |->
     << 1, 2, 3, 4, 5, 8, 7, 9, 6,
        4, 5, 6, 7, 2, 9, 8, 3, 1,
        7, 8, 9, 3, 1, 6, 2, 5, 4,
        8, 3, 4, 5, 6, 7, 1, 2, 9,
        2, 7, 5, 8, 9, 1, 4, 6, 3,
        6, 9, 1, 2, 3, 4, 5, 8, 7,
        3, 4, 7, 6, 8, 5, 9, 1, 2,
        9, 6, 8, 1, 7, 2, 3, 4, 5,
        5, 1, 2, 9, 4, 3, 6, 7, 8 >>[i + 1]]

\* clues of Sparse whose removal leaves puzzles the solver has to search
SparseBlankCells == {7, 9, 12, 25, 38, 63}

\* puzzles with several completions that propagation alone does not solve
SparseInputs == {Blanked(Sparse, S) : S \in SUBSET SparseBlankCells}

NoRandom == [difficulty |-> "none", nums |-> <<>>, pick |-> 0, cells |-> <<>>]

InitSolver ==
  /\ inBoard \in SmallInputs
  /\ inLimit = 0
  /\ inRandom = NoRandom
  /\ op = "none"
  /\ out = 0
  /\ StoreIs(InitialStore)
  /\ stepsLeft = 0

\* a caller runs solvePuzzle(inBoard)
DoSolve ==
  /\ op = "none"
  /\ inBoard # <<>>
  /\ op' = "solve"
  /\ out' = solvePuzzle(inBoard)
  /\ UNCHANGED <<inBoard, inLimit, inRandom, storeVars>>

\* a caller runs countSolutions(inBoard, l)
DoCount ==
  /\ op = "none"
  /\ inBoard # <<>>
  /\ \E l \in 1 .. MaxLimit :
       /\ inLimit' = l
       /\ out' = countSolutions(inBoard, l)
  /\ op' = "count"
  /\ UNCHANGED <<inBoard, inRandom, storeVars>>

NextSolver == DoSolve \/ DoCount

SpecSolver == InitSolver /\ [][NextSolver]_vars

InitSearch ==
  /\ inBoard \in SmallInputs \cup SparseInputs
  /\ inLimit = 0
  /\ inRandom = NoRandom
  /\ op = "none"
  /\ out = 0
  /\ StoreIs(InitialStore)
  /\ stepsLeft = 0

NextSearch == DoSolve

SpecSearch == InitSearch /\ [][NextSearch]_vars

\* shuffle leaves nums rotated by n
Rotated(n) == [j \in 1 .. 9 |-> ((j + n - 1) % 9) + 1]

\* shuffle leaves the cell indices in the order off, off + step, ... (mod 81)
Strided(step, off) == [j \in 1 .. 81 |-> (step * (j - 1) + off) % 81]

NumsDraws ==
  {<<Rotated(0), Rotated(4), Rotated(8)>>, <<Rotated(3), Rotated(5), Rotated(7)>>}

\* every tier with the cells taken from the last row backwards, the three
\* tiers of most clues also with the cells taken in steps of eight
RandomDraws ==
  {[difficulty |-> df, nums |-> ns, pick |-> p, cells |-> Strided(80, 5)] :
     df \in Difficulties, ns \in NumsDraws, p \in 0 .. 6}
  \cup
  {[difficulty |-> df, nums |-> <<Rotated(0), Rotated(4), Rotated(8)>>,
    pick |-> p, cells |-> Strided(8, 5)] :
     df \in {"easy", "medium", "hard"}, p \in 0 .. 6}

InitGen ==
  /\ inBoard = <<>>
  /\ inLimit = 0
  /\ inRandom \in {r \in RandomDraws :
                     r.pick <= targetClues[r.difficulty][2] - targetClues[r.difficulty][1]}
  /\ op = "none"
  /\ out = 0
  /\ StoreIs(InitialStore)
  /\ stepsLeft = 0

\* newGame runs generatePuzzle(difficulty)
DoGenerate ==
  /\ op = "none"
  /\ inRandom # NoRandom
  /\ op' = "generate"
  /\ out' = generatePuzzle(inRandom.difficulty, inRandom)
  /\ UNCHANGED <<inBoard, inLimit, inRandom, storeVars>>

NextGen == DoGenerate

SpecGen == InitGen /\ [][NextGen]_vars


(***************************************************************************)
(* The peer table and getRelatedCells, for every cell.                     *)
(***************************************************************************)

InitPeers ==
  /\ inBoard = <<>>
  /\ inLimit = 0
  /\ inRandom = NoRandom
  /\ op = "none"
  /\ out = 0
  /\ StoreIs(InitialStore)
  /\ stepsLeft = 0

\* a read of PEERS[cell]
DoPeers ==
  /\ op = "none"
  /\ \E i \in Cells : out' = [cell |-> i, peers |-> PEERS[i]]
  /\ op' = "PEERS"
  /\ UNCHANGED <<inBoard, inLimit, inRandom, storeVars>>

\* getRelatedCells(row, col) in both variants of the library
DoGetRelatedCells ==
  /\ op = "none"
  /\ \E row \in 0 .. 8, col \in 0 .. 8 :
       out' = [cell |-> row * 9 + col,
               related |-> getRelatedCells(row, col),
               relatedLoops |-> getRelatedCellsLoops(row, col)]
  /\ op' = "getRelatedCells"
  /\ UNCHANGED <<inBoard, inLimit, inRandom, storeVars>>

NextPeers == DoPeers \/ DoGetRelatedCells

SpecPeers == InitPeers /\ [][NextPeers]_vars

(***************************************************************************)
(* solvePuzzle, one step of the solver at a time: out is the machine.      *)
(***************************************************************************)

\* a puzzle solved by propagation, puzzles that need the search, one with
\* two completions and grids whose clues conflict
MachineBoards ==
  {Sparse, Blanked(Sparse, SparseBlankCells), Blanked(Sparse, {7, 9, 12, 63}),
   Blanked(Base, BlankCells), [Base EXCEPT ![80] = 1],
   [Blanked(Base, BlankCells) EXCEPT ![12] = 1], [Sparse EXCEPT ![0] = 7]}

InitMachine ==
  /\ inBoard \in MachineBoards
  /\ inLimit = 0
  /\ inRandom = NoRandom
  /\ op = "none"
  /\ out = NewSolver(inBoard)
  /\ StoreIs(InitialStore)
  /\ stepsLeft = 0

\* one step of the call on top of the stack
DoStepSolver ==
  /\ ~Halted(out)
  /\ out' = StepSolver(out)
  /\ op' = Top(out).f
  /\ UNCHANGED <<inBoard, inLimit, inRandom, storeVars>>

NextMachine == DoStepSolver

SpecMachine == InitMachine /\ [][NextMachine]_vars

\* the steps go on until the machine halts
FairMachine == SpecMachine /\ WF_vars(DoStepSolver)

(***************************************************************************)
(* The game.  The player starts games, selects cells, enters values and    *)
(* notes, asks for hints and walks the history tree; a setTimeout callback *)
(* runs at any later moment.                                               *)
(***************************************************************************)

\* the cells the player selects: an empty cell and a clue
PlayCells == {0, 6}

\* the digits the player enters
PlayValues == {1, 2}

\* the digits the player notes
NoteValues == {2}

\* the tiers the player chooses from
GameDifficulties == {"easy", "master"}

\* what the generator draws in every game
GameDraw ==
  [nums |-> <<Rotated(0), Rotated(4), Rotated(8)>>, pick |-> 0,
   cells |-> Strided(80, 5)]

GeneratedPuzzles == [d \in GameDifficulties |-> generatePuzzle(d, GameDraw)]

\* the handler calls of one session that may change the store
MaxSteps == 5

\* the setTimeout callbacks that may wait at one time
MaxTimeouts == 1

\* the ids the history panel may ask to restore: the root, the first nodes
\* made, a node in the middle of a full tree
RestoreIds == {1, 2, 3, MAX_HISTORY_NODES \div 2}

\* handler name leaves the store t
Call(name, t) ==
  /\ stepsLeft > 0
  /\ op' = IF t = Store THEN op ELSE name
  /\ stepsLeft' = IF t = Store THEN stepsLeft ELSE stepsLeft - 1
  /\ Becomes(t)
  /\ UNCHANGED libVars

InitGame ==
  /\ inBoard = <<>>
  /\ inLimit = 0
  /\ inRandom = NoRandom
  /\ op = "none"
  /\ out = 0
  /\ stepsLeft = MaxSteps
  /\ \E d \in GameDifficulties : StoreIs([InitialStore EXCEPT !.difficulty = d])

NewGame == Call("newGame", newGameAtom(Store, GeneratedPuzzles[difficultyAtom]))

SelectCell ==
  \E newValue \in {<<>>} \cup {<<c>> : c \in PlayCells} :
    Call("selectedCell", selectedCellAtom(Store, newValue))

SetCellValue ==
  \E value \in PlayValues :
    Call("setCellValue", setCellValueAtom(Store, value))

ClearCell == Call("clearCell", clearCellAtom(Store))

ToggleNote ==
  \E value \in NoteValues :
    Call("toggleNote", toggleNoteAtom(Store, value))

SetNoteMode ==
  \E b \in BOOLEAN :
    Call("noteMode", [Store EXCEPT !.noteMode = b])

Undo == Call("undo", undoAtom(Store))

RestoreToNode ==
  \E nodeId \in RestoreIds :
    Call("restoreToNode", restoreToNodeAtom(Store, nodeId))

ShowHint == Call("showHint", showHintAtom(Store))

ApplyHint ==
  /\ Len(timeouts) < MaxTimeouts
  /\ Call("applyHint", applyHintAtom(Store))

ApplyHintTimeout ==
  /\ timeouts # <<>>
  /\ Call("applyHintTimeout", applyHintTimeout(Store))

CloseHint == Call("closeHint", closeHintAtom(Store))

Hint == Call("hint", hintAtom(Store))

Next ==
  \/ NewGame
  \/ SelectCell
  \/ SetCellValue
  \/ ClearCell
  \/ ToggleNote
  \/ SetNoteMode
  \/ Undo
  \/ RestoreToNode
  \/ ShowHint
  \/ ApplyHint
  \/ ApplyHintTimeout
  \/ CloseHint
  \/ Hint

Spec == InitGame /\ [][Next]_vars

(***************************************************************************)
(* Sessions that start with a full history tree.  The tree is made by the  *)
(* handlers themselves, from a script of moves on the first cell.          *)
(***************************************************************************)

\* the handler calls that may change the store once the tree is full
BigSteps == 3

Handle(s, move) ==
  IF move.kind = "set" THEN setCellValueAtom(s, move.arg)
  ELSE IF move.kind = "undo" THEN undoAtom(s)
  ELSE restoreToNodeAtom(s, move.arg)

StepReplay(m, script) ==
  IF m.done THEN m
  ELSE IF m.at > Len(script) THEN [m EXCEPT !.done = TRUE]
  ELSE [m EXCEPT !.store = Handle(@, script[m.at]), !.at = @ + 1]

\* the store after a new game of the tier, the selection of the first
\* cell and the moves of the script
Replay(difficulty, script) ==
  Iterate(LAMBDA m : StepReplay(m, script),
          [store |-> selectedCellAtom(
                       newGameAtom([InitialStore EXCEPT !.difficulty = difficulty],
                                   GeneratedPuzzles[difficulty]),
                       <<0>>),
           at |-> 1, done |-> FALSE],
          PathFuel).store

SetMove(k) == [kind |-> "set", arg |-> 1 + (k % 2)]

\* n moves one after the other
ChainScript(n) == [k \in 1 .. n |-> SetMove(k)]

\* n moves, each one taken back
BushScript(n) ==
  [k \in 1 .. 2 * n |->
     IF k % 2 = 1 THEN SetMove(k \div 2) ELSE [kind |-> "undo", arg |-> 0]]

\* a moves, back to the root, b moves
ForkScript(a, b) ==
  ChainScript(a) \o <<[kind |-> "restore", arg |-> 1]>> \o ChainScript(b)

\* trees of MAX_HISTORY_NODES nodes
FullTrees(limit) ==
  {Replay("master", ChainScript(limit - 1)),
   Replay("master", BushScript(limit - 1)),
   Replay("master", ForkScript(limit \div 2 - 1, limit \div 2)),
   Replay("easy", BushScript(limit - 1))}

InitBig ==
  /\ inBoard = <<>>
  /\ inLimit = 0
  /\ inRandom = NoRandom
  /\ op = "none"
  /\ out = 0
  /\ stepsLeft = BigSteps
  /\ \E s \in FullTrees(MAX_HISTORY_NODES) : StoreIs(s)

SpecBig == InitBig /\ [][Next]_vars

\* a game in which the player toggles no note: note mode stays off and
\* toggleNoteAtom is not called
NextPlace ==
  \/ NewGame \/ SelectCell \/ SetCellValue \/ ClearCell \/ Undo \/ RestoreToNode
  \/ ShowHint \/ ApplyHint \/ ApplyHintTimeout \/ CloseHint \/ Hint

SpecPlace == InitGame /\ [][NextPlace]_vars

\* games with a few moves made: the store after newGameAtom and up to
\* MaxChain commits
MaxChain == 5

\* the handler calls that may change the store of such a game
BranchSteps == 3

InitBranch ==
  /\ inBoard = <<>>
  /\ inLimit = 0
  /\ inRandom = NoRandom
  /\ op = "none"
  /\ out = 0
  /\ stepsLeft = BranchSteps
  /\ \E k \in 2 .. MaxChain : StoreIs(Replay("master", ChainScript(k)))

SpecBranch == InitBranch /\ [][Next]_vars

(***************************************************************************)
(* The functions of the board, applied to grids and to game boards with    *)
(* conflict flags left over from an earlier board.                         *)
(***************************************************************************)

\* the cells whose isConflict flag is set in the board handed in
StaleFlags == {{}, {0, 80}, Cells}

\* the board with the given flags set
WithFlags(board, stale) ==
  Eager([i \in Cells |-> [board[i] EXCEPT !.isConflict = i \in stale]])

\* the game board of a grid with the given flags set
Flagged(b, stale) == WithFlags(createGameBoard(b), stale)

InitBoard ==
  /\ inBoard \in SmallInputs \cup SparseInputs
  /\ inLimit = 0
  /\ inRandom = NoRandom
  /\ op = "none"
  /\ out = 0
  /\ StoreIs(InitialStore)
  /\ stepsLeft = 0

\* a caller runs updateConflicts(board)
DoUpdateConflicts ==
  /\ op = "none"
  /\ \E stale \in StaleFlags :
       out' = [board |-> Flagged(inBoard, stale),
               result |-> updateConflicts(Flagged(inBoard, stale))]
  /\ op' = "updateConflicts"
  /\ UNCHANGED <<inBoard, inLimit, inRandom, storeVars>>

\* a caller runs isSolved(board), and isSolved(updateConflicts(board))
DoIsSolved ==
  /\ op = "none"
  /\ \E stale \in StaleFlags :
       out' = [board |-> Flagged(inBoard, stale),
               result |-> isSolved(Flagged(inBoard, stale)),
               updated |-> isSolved(updateConflicts(Flagged(inBoard, stale)))]
  /\ op' = "isSolved"
  /\ UNCHANGED <<inBoard, inLimit, inRandom, storeVars>>

\* newGame runs createGameBoard(puzzle)
DoCreateGameBoard ==
  /\ op = "none"
  /\ out' = createGameBoard(inBoard)
  /\ op' = "createGameBoard"
  /\ UNCHANGED <<inBoard, inLimit, inRandom, storeVars>>

NextBoard == DoUpdateConflicts \/ DoIsSolved \/ DoCreateGameBoard

SpecBoard == InitBoard /\ [][NextBoard]_vars

(***************************************************************************)
(* getHint, applied to the game boards of puzzles and to boards whose      *)
(* notes the player has edited.                                            *)
(***************************************************************************)

\* the notes a player has left in a cell
NoteChoices == {{}, {1, 2}, {1, 2, 3}}

\* the cell across the diagonal
Transposed(i) == ColOf(i) * 9 + RowOf(i)

\* the columns of the cells a pattern empties
PatternCols == 0 .. 4

\* the second row of a pattern: in the box of row 0, or in the next box
MirrorRows == {1, 3}

\* Base with the cells of row 0 and of the mirror row in the pattern columns
\* empty, both rows with the notes pat[column]
PatternBoard(pat, mirror) ==
  Eager([i \in Cells |->
           IF ColOf(i) \in PatternCols /\ RowOf(i) \in {0, mirror}
           THEN [value |-> 0, isFixed |-> FALSE, notes |-> pat[ColOf(i)],
                 isConflict |-> FALSE]
           ELSE [value |-> Base[i], isFixed |-> TRUE, notes |-> {},
                 isConflict |-> FALSE]])

\* the board turned over its diagonal: rows become columns
Turned(board) == Eager([i \in Cells |-> board[Transposed(i)]])

HintBoards ==
  {createGameBoard(b) : b \in SmallInputs \cup SparseInputs}
    \cup {PatternBoard(pat, m) : pat \in [PatternCols -> NoteChoices], m \in MirrorRows}
    \cup {Turned(PatternBoard(pat, m)) :
            pat \in [PatternCols -> NoteChoices], m \in MirrorRows}

InitHint ==
  /\ inBoard \in HintBoards
  /\ inLimit = 0
  /\ inRandom = NoRandom
  /\ op = "none"
  /\ out = 0
  /\ StoreIs(InitialStore)
  /\ stepsLeft = 0

\* showHintAtom runs getHint(board)
DoGetHint ==
  /\ op = "none"
  /\ out' = getHint(inBoard)
  /\ op' = "getHint"
  /\ UNCHANGED <<inBoard, inLimit, inRandom, storeVars>>

NextHint == DoGetHint

SpecHint == InitHint /\ [][NextHint]_vars

\* findNakedPair(board), as getHint calls it
DoFindNakedPair ==
  /\ op = "none"
  /\ out' = findNakedPair(inBoard)
  /\ op' = "findNakedPair"
  /\ UNCHANGED <<inBoard, inLimit, inRandom, storeVars>>

NextPair == DoFindNakedPair

SpecPair == InitHint /\ [][NextPair]_vars

(***************************************************************************)
(* Games that are solved: the player asks for hints, selects cells and     *)
(* enters, in the selected cell, the value the solution has there.  The    *)
(* puzzle is one whose solving needs more than singles.                    *)
(***************************************************************************)

\* what the generator draws for the game that is solved
SolveDraw ==
  [nums |-> <<Rotated(0), Rotated(4), Rotated(8)>>, pick |-> 0,
   cells |-> Strided(38, 0)]

SolveGame(draw) ==
  newGameAtom([InitialStore EXCEPT !.difficulty = "hard"],
              generatePuzzle("hard", draw))

\* setCellValueAtom with the value of the solution for the selected cell
PlaceSelected(s) ==
  IF s.selectedCell = <<>> THEN s
  ELSE setCellValueAtom(s, s.gameState.solution[s.selectedCell[1]])

\* the store after k rounds of showHintAtom, which selects the cell of
\* the hint, and setCellValueAtom
RECURSIVE FollowHints(_, _)
FollowHints(s, k) ==
  IF k = 0 THEN s ELSE FollowHints(PlaceSelected(showHintAtom(s)), k - 1)

\* the rounds played before the session
MaxFollowed == 12

\* the handler calls of one solving session that may change the store
SolveSteps == 3

InitSolve ==
  /\ inBoard = <<>>
  /\ inLimit = 0
  /\ inRandom = NoRandom
  /\ op = "none"
  /\ out = 0
  /\ stepsLeft = SolveSteps
  /\ \E game \in {SolveGame(SolveDraw)} :
       \E k \in 0 .. MaxFollowed : StoreIs(FollowHints(game, k))

PlaceSolution == Call("setCellValue", PlaceSelected(Store))

NextSolve ==
  \/ SelectCell
  \/ PlaceSolution
  \/ ShowHint

SpecSolve == InitSolve /\ [][NextSolve]_vars

\* the loop of setCellValueAtom and commitCellValueAtom that calls
\* autoFillNakedSingles(newBoard) until it returns false
DoAutoFill ==
  /\ op = "none"
  /\ out' = autoFillNakedSingles(inBoard)
  /\ op' = "autoFillNakedSingles"
  /\ UNCHANGED <<inBoard, inLimit, inRandom, storeVars>>

NextFill == DoAutoFill

SpecFill == InitHint /\ [][NextFill]_vars
(***************************************************************************)
(* What a valid completion is, stated without the solver.                  *)
(***************************************************************************)

AllUnits ==
  {{UNITS[i][k][j] : j \in 1 .. 9} : i \in Cells, k \in 1 .. 3}

\* every row, column and box is a permutation of 1-9
IsValidGrid(g) == \A u \in AllUnits : {g[i] : i \in u} = Digits

\* g is a complete valid grid that keeps every filled cell of board
IsCompletionOf(g, board) ==
  /\ IsValidGrid(g)
  /\ \A i \in Cells : board[i] # 0 => g[i] = board[i]

\* the digits a valid completion can put in an empty cell: those its row lacks
RowMissing(board, i) ==
  Digits \ {board[j] : j \in {RowOf(i) * 9 + c : c \in 0 .. 8}}

RECURSIVE Fillings(_, _, _)
\* every way to fill the empty cells todo of board with digits its rows lack
Fillings(board, g, todo) ==
  IF todo = {} THEN {g}
  ELSE LET c == CHOOSE x \in todo : TRUE
       IN UNION {Fillings(board, [g EXCEPT ![c] = d], todo \ {c}) :
                   d \in RowMissing(board, c)}

\* all valid complete grids that extend board
Completions(board) ==
  {g \in Fillings(board, board, {i \in Cells : board[i] = 0}) :
     IsCompletionOf(g, board)}

NumCompletions(board) == Cardinality(Completions(board))

Min(a, b) == IF a <= b THEN a ELSE b

\* board has a valid completion: one of the known grids, or one found by
\* filling its empty cells in every way
HasCompletion(board) ==
  \/ IsCompletionOf(SparseSolution, board)
  \/ IsCompletionOf(Base, board)
  \/ Completions(board) # {}

(***************************************************************************)
(* The generator and the solver                                            *)
(***************************************************************************)

\* C1: every puzzle generatePuzzle returns, for every tier, pick and removal
\* order, has countSolutions(puzzle, 2) = 1, and the solution returned with it
\* is a valid completion of it.
C1_GeneratedPuzzleIsUnique ==
  op = "generate" =>
    /\ countSolutions(out.puzzle, 2) = 1
    /\ IsCompletionOf(out.solution, out.puzzle)

\* a master puzzle whose carving both removed clues and had removals rejected
C1_Witness ==
  /\ op = "generate"
  /\ inRandom.difficulty = "master"
  /\ ClueCount(out.puzzle) < 81
  /\ ClueCount(out.puzzle) > targetClues["master"][1] + inRandom.pick

\* C2: for every input grid, conflicting clues included, solvePuzzle returns
\* null or a valid complete grid that keeps every filled cell of the input.
C2_NullOrValidCompletion ==
  op = "solve" => (~out.found \/ IsCompletionOf(out.board, inBoard))

\* C3: if the input has at least one valid completion, solvePuzzle returns a
\* board, and that board is a valid completion of the input.
C3_SolvableIsSolved ==
  (op = "solve" /\ HasCompletion(inBoard)) =>
    (out.found /\ IsCompletionOf(out.board, inBoard))

\* a solvable input solved by a search that took back a trial assignment
C3_Witness ==
  /\ op = "solve"
  /\ HasCompletion(inBoard)
  /\ out.found
  /\ SearchRestores(inBoard) > 0

\* C4: for every grid and every limit >= 1, countSolutions(grid, limit) is
\* min(limit, N), N the number of valid complete grids that extend the grid.
C4_CountIsMinOfLimitAndCompletions ==
  op = "count" => out = Min(inLimit, NumCompletions(inBoard))


\* C24: for every tier, solved grid and removal order, the number of clues of
\* the puzzle generatePuzzle returns lies in the inclusive range of the tier:
\* easy 36-42, medium 30-36, hard 26-30, expert 22-26, master 17-22.
C24_ClueCountInRange ==
  op = "generate" =>
    /\ ClueCount(out.puzzle) >= targetClues[out.difficulty][1]
    /\ ClueCount(out.puzzle) <= targetClues[out.difficulty][2]

\* C39: for every tier and every draw, the solution generatePuzzle returns
\* has a digit in every cell and every row, column and box of it is a
\* permutation of 1-9, so it is never the partial grid generateSolvedGrid
\* falls back to; every clue of the puzzle is the value the solution has in
\* that cell.
C39_SolutionIsFullGrid ==
  op = "generate" =>
    /\ \A i \in Cells : out.solution[i] \in Digits
    /\ \A u \in AllUnits : Cardinality({out.solution[i] : i \in u}) = 9
    /\ out.solution # DiagonalBoxes(inRandom.nums)
    /\ \A i \in Cells : out.puzzle[i] = 0 \/ out.puzzle[i] = out.solution[i]

\* a puzzle with clues left and cells removed, on a grid that the solver
\* has completed from the diagonal boxes
C39_Witness ==
  /\ op = "generate"
  /\ \E i \in Cells : out.puzzle[i] # 0 /\ DiagonalBoxes(inRandom.nums)[i] = 0
  /\ \E i \in Cells : out.puzzle[i] = 0 /\ DiagonalBoxes(inRandom.nums)[i] # 0
  /\ ClueCount(out.puzzle) < 40

\* the cells other than i in the row, the column or the box of i
Neighbours(i) ==
  {j \in Cells \ {i} :
     \/ j \div 9 = i \div 9
     \/ j % 9 = i % 9
     \/ ((j \div 9) \div 3) * 3 + ((j % 9) \div 3)
          = ((i \div 9) \div 3) * 3 + ((i % 9) \div 3)}

\* the sequence lists every element of the set S once and nothing else
Lists(seq, S) ==
  /\ Len(seq) = Cardinality(S)
  /\ {seq[k] : k \in 1 .. Len(seq)} = S

\* C25: for every cell i, PEERS[i] holds exactly 20 distinct cells, the cells
\* other than i in the row, column or box of i; the relation is symmetric
\* and irreflexive; getRelatedCells(row, col) returns exactly these cells as
\* [row, col] pairs, without duplicates, in both variants of the library.
C25_PeersAreNeighbours ==
  /\ op = "PEERS" =>
       /\ Len(out.peers) = 20
       /\ Lists(out.peers, Neighbours(out.cell))
       /\ \A k \in 1 .. Len(out.peers) :
            /\ out.peers[k] # out.cell
            /\ \E n \in 1 .. Len(PEERS[out.peers[k]]) :
                 PEERS[out.peers[k]][n] = out.cell
  /\ op = "getRelatedCells" =>
       /\ Len(out.related) = 20
       /\ Lists(out.related, {<<j \div 9, j % 9>> : j \in Neighbours(out.cell)})
       /\ Lists(out.relatedLoops, {<<j \div 9, j % 9>> : j \in Neighbours(out.cell)})

\* the related cells of the centre cell end with the last corner of its box
C25_Witness ==
  /\ op = "getRelatedCells"
  /\ out.cell = 40
  /\ out.related[20] = <<5, 5>>
  /\ out.relatedLoops[20] = <<5, 5>>

(***************************************************************************)
(* The solver, step by step                                                *)
(***************************************************************************)

\* the number of candidate bits over the 81 cells
TotalBits(m) ==
  Cardinality({p \in Cells \X Digits : p[2] \in m.cand[p[1]]})

\* the call on top of the stack is eliminate(cell, value) at its first line
EliminateEntered(m) ==
  /\ ~Halted(m)
  /\ Top(m).f = "eliminate"
  /\ Top(m).pc = "start"

\* the step returns from the call on top of the stack
Returns(m, n) == Len(n.stack) < Len(m.stack)

\* C26: every call of assign and eliminate returns true or false: the
\* machine halts, so every call made has returned; an eliminate of an absent
\* candidate returns true at once and changes nothing; every other eliminate
\* takes one bit off the total of candidate bits before it calls anything,
\* and no step of assign or eliminate adds a bit.
C26_PropagationTerminates ==
  /\ <>Halted(out)
  /\ [][/\ (EliminateEntered(out) /\ Top(out).value \notin out.cand[Top(out).cell])
            => /\ Returns(out, out')
               /\ out'.ret = "true"
               /\ out'.cand = out.cand
               /\ out'.grid = out.grid
        /\ (EliminateEntered(out) /\ Top(out).value \in out.cand[Top(out).cell])
            => /\ TotalBits(out') = TotalBits(out) - 1
               /\ Len(out'.stack) <= Len(out.stack)
        /\ Top(out).f \in {"assign", "eliminate"}
            => /\ TotalBits(out') <= TotalBits(out)
               /\ Returns(out, out') => out'.ret \in {"true", "false"}]_vars

\* an eliminate that removed the last candidate of a cell has returned false
\* to the eliminate that called it, after calls that returned true
C26_Witness ==
  /\ ~Halted(out)
  /\ Top(out).f = "eliminate"
  /\ Top(out).pc = "peers"
  /\ out.ret = "false"
  /\ \E i \in Cells : out.cand[i] = {}
  /\ TotalBits(out) < 9 * 81 - 1

\* initializeCandidates has just returned true to the constructor
InitSucceeded(m) ==
  /\ ~Halted(m)
  /\ Top(m).f = "solvePuzzle"
  /\ Top(m).pc = "constructor"
  /\ m.ret = "true"

\* the assign of a trial has just returned true to search
TrialSucceeded(m) ==
  /\ ~Halted(m)
  /\ Top(m).f = "search"
  /\ Top(m).pc = "assign"
  /\ m.ret = "true"

\* the rows, columns and boxes
UnitSets ==
  {{r * 9 + c : c \in 0 .. 8} : r \in 0 .. 8}
    \cup {{r * 9 + c : r \in 0 .. 8} : c \in 0 .. 8}
    \cup {{i \in Cells : BoxOf(i) = b} : b \in 0 .. 8}

\* a cell is filled iff its mask is the bit of its value
FilledIffSingle(m) ==
  \A i \in Cells :
    /\ m.grid[i] # 0 => m.cand[i] = {m.grid[i]}
    /\ Cardinality(m.cand[i]) = 1 => m.cand[i] = {m.grid[i]}

\* no peer of a filled cell has the value of the cell as a candidate
PeersCleared(m) ==
  \A i \in Cells : m.grid[i] # 0 =>
    \A j \in Neighbours(i) : m.grid[i] \notin m.cand[j]

\* every digit has a place in every unit, and a digit with one place in a
\* unit is the value of that place
UnitsServed(m) ==
  \A u \in UnitSets, d \in Digits :
    /\ \E i \in u : d \in m.cand[i]
    /\ \A i \in u : (d \in m.cand[i] /\ \A j \in u \ {i} : d \notin m.cand[j])
                      => m.grid[i] = d

\* C27: whenever propagation succeeds (initializeCandidates returns true, or
\* an assign in search returns true), a cell has a grid value v # 0 iff its
\* mask is the single bit of v, no peer of a filled cell has the value of the
\* cell as a candidate, and in every row, column and box every digit has a
\* candidate cell and a digit with one candidate cell is the value of it.
C27_PropagatedState ==
  (InitSucceeded(out) \/ TrialSucceeded(out))
  => /\ FilledIffSingle(out)
     /\ PeersCleared(out)
     /\ UnitsServed(out)

\* search is about to try a digit: it is at the head of its loop with a
\* candidate left
TrialStarts(m) ==
  /\ ~Halted(m)
  /\ Top(m).f = "search"
  /\ Top(m).pc = "loop"
  /\ \E x \in Top(m).candidates : x >= Top(m).d

\* the trial of search has failed: its assign has returned false, or its
\* recursive search has returned null
TrialFailed(m) ==
  /\ ~Halted(m)
  /\ Top(m).f = "search"
  /\ \/ Top(m).pc = "assign" /\ m.ret = "false"
     \/ Top(m).pc = "search" /\ m.ret = "null"

\* C28: in search, after the trial of a digit has failed (assign returned
\* false or the recursive search returned null) the grid and the candidates
\* are, element for element, what they were just before the trial, when the
\* next digit is tried and when search returns null: the copies are taken
\* from the state before the trial, nothing writes to the copies of a
\* waiting search, and the step after a failed trial puts them back.
C28_FailedTrialRestored ==
  [][/\ TrialStarts(out) =>
          /\ Len(out'.stack) = Len(out.stack) + 1
          /\ out'.stack[Len(out.stack)].savedGrid = out.grid
          /\ out'.stack[Len(out.stack)].savedCandidates = out.cand
          /\ out'.grid = out.grid
          /\ out'.cand = out.cand
     /\ \A k \in 1 .. Len(out.stack) - 1 :
          k <= Len(out'.stack) => out'.stack[k] = out.stack[k]
     /\ TrialFailed(out) =>
          /\ out'.grid = Top(out).savedGrid
          /\ out'.cand = Top(out).savedCandidates
          /\ Len(out'.stack) = Len(out.stack)
          /\ Top(out').pc = "loop"
     /\ (/\ ~Halted(out)
         /\ Top(out).f = "search"
         /\ Top(out).pc = "loop"
         /\ ~TrialStarts(out)) =>
          /\ out'.ret = "null"
          /\ out'.grid = out.grid
          /\ out'.cand = out.cand]_vars

\* a search whose trial failed is back at the head of its loop with another
\* digit to try, in the state it had saved
C28_Witness ==
  /\ TrialStarts(out)
  /\ out.restored > 0
  /\ Top(out).d > 1
  /\ Top(out).savedGrid = out.grid
  /\ Top(out).savedCandidates = out.cand

(***************************************************************************)
(* The history tree                                                        *)
(***************************************************************************)

\* a handler has changed the store in this step; op' names it
Stepped == stepsLeft' # stepsLeft

\* the selected cell can be edited: setCellValueAtom, clearCellAtom and
\* hintAtom pass their guards
SelectedEditable ==
  /\ selectedCell # <<>>
  /\ gameState.board # <<>>
  /\ ~gameState.board[selectedCell[1]].isFixed
  /\ ~gameState.isComplete

\* a step in which setCellValueAtom has run past its guards
SetStep ==
  /\ Stepped
  /\ op' \in {"setCellValue", "clearCell", "hint", "applyHintTimeout"}
  /\ SelectedEditable

\* a step in which the write of selectedCellAtom has run
SelectStep ==
  /\ Stepped
  /\ \/ op' \in {"selectedCell", "applyHint"}
     \/ /\ op' = "showHint"
        /\ currentHint' # <<>>
        /\ Len(currentHint'[1].affectedCells) > 0

\* the pending edit is of an empty cell that can be edited
PendingOpen ==
  /\ pendingCellEdit # <<>>
  /\ gameState.board # <<>>
  /\ ~gameState.board[pendingCellEdit[1].cell].isFixed
  /\ gameState.board[pendingCellEdit[1].cell].value = 0

PendingNotes == gameState.board[pendingCellEdit[1].cell].notes

\* a step in which commitCellValueAtom has run on a cell that is not fixed
CommitValueStep ==
  SelectStep /\ PendingOpen /\ Cardinality(PendingNotes) = 1

\* a step in which commitNoteChangesAtom has run with a difference
CommitNotesStep ==
  /\ SelectStep
  /\ PendingOpen
  /\ Cardinality(PendingNotes) > 1
  /\ PendingNotes # pendingCellEdit[1].originalNotes

CommitStep == SetStep \/ CommitValueStep \/ CommitNotesStep

Last(seq) == seq[Len(seq)]

\* the tree has one node it did not have, the child of the node that was
\* current and the last of its children, and that node is current
OneNodeAdded ==
  LET was == historyTree.currentNodeId
      n == historyTree'.currentNodeId
  IN /\ DOMAIN historyTree'.nodes \ DOMAIN historyTree.nodes = {n}
     /\ historyTree'.nodes[n].parentId = was
     /\ was \in DOMAIN historyTree'.nodes
     /\ historyTree'.nodes[was].childrenIds # <<>>
     /\ Last(historyTree'.nodes[was].childrenIds) = n
     /\ ~InSeq(n, historyTree.nodes[was].childrenIds)
     \* the children before it are those the node had and pruning left
     /\ SubSeq(historyTree'.nodes[was].childrenIds, 1,
               Len(historyTree'.nodes[was].childrenIds) - 1)
          = SelectSeq(historyTree.nodes[was].childrenIds,
                      LAMBDA c : c \in DOMAIN historyTree'.nodes)

\* C5: every commit (setCellValueAtom on a cell that is not fixed in a game
\* that is not complete, commitCellValueAtom on a cell that is not fixed,
\* commitNoteChangesAtom with a difference in the notes) adds exactly one node
\* to the tree, whose parentId is the node that was current and whose id is
\* the last of that node's childrenIds, and makes it current.
C5_CommitAddsOneChild == [][CommitStep => OneNodeAdded]_vars

\* a batch of notes committed on leaving the cell, in a full tree that the
\* commit has pruned: the new node is the last child of the root, next to
\* the children pruning has left
C5_Witness ==
  /\ op = "selectedCell"
  /\ historyTree.nodes[historyTree.currentNodeId].description.text = "notes"
  /\ historyTree.nodes[historyTree.currentNodeId].parentId = historyTree.rootId
  /\ Len(historyTree.nodes[historyTree.rootId].childrenIds) > 1
  /\ Cardinality(DOMAIN historyTree.nodes) < MAX_HISTORY_NODES

\* C6: after any sequence of new games, commits, undos, restores and
\* pruning, the root has parentId null and moveCount 0 and every other node
\* has a moveCount strictly greater than that of its parent, which is in
\* the tree; so moveCount strictly increases from the root to the current
\* node.
C6_MoveCountIncreases ==
  historyTree.rootId # NoId =>
    /\ historyTree.rootId \in DOMAIN historyTree.nodes
    /\ historyTree.nodes[historyTree.rootId].parentId = NoId
    /\ historyTree.nodes[historyTree.rootId].moveCount = 0
    /\ \A id \in DOMAIN historyTree.nodes \ {historyTree.rootId} :
         /\ historyTree.nodes[id].parentId \in DOMAIN historyTree.nodes
         /\ historyTree.nodes[id].moveCount
              > historyTree.nodes[historyTree.nodes[id].parentId].moveCount

\* a commit has pruned the tree, and the game has then been restored to a
\* node below the root
C6_Witness ==
  /\ op = "restoreToNode"
  /\ Cardinality(DOMAIN historyTree.nodes) < nextId - 1
  /\ historyTree.currentNodeId # historyTree.rootId
  /\ historyTree.nodes[historyTree.currentNodeId].moveCount > 0

\* C7: pruneHistoryTree never deletes the root, the current node or any
\* other node on the path from the root to the current node: after a commit
\* the root, the new current node and every node that was on the path to the
\* node the commit started from are in the tree.
C7_PruneKeepsCurrentPath ==
  [][CommitStep =>
       /\ historyTree'.rootId = historyTree.rootId
       /\ historyTree'.rootId \in DOMAIN historyTree'.nodes
       /\ historyTree'.currentNodeId \in DOMAIN historyTree'.nodes
       /\ \A id \in getPathToNode(historyTree.nodes, historyTree.currentNodeId) :
            id \in DOMAIN historyTree'.nodes]_vars

\* a commit at the end of a long branch has pruned a node off the path
C7_Witness ==
  /\ op \in {"setCellValue", "clearCell", "hint"}
  /\ Cardinality(DOMAIN historyTree.nodes) < nextId - 1
  /\ historyTree.nodes[historyTree.currentNodeId].moveCount > 2

(***************************************************************************)
(* The board                                                               *)
(***************************************************************************)

\* the puzzle of the game being played
Clue(i) == GeneratedPuzzles[difficultyAtom].puzzle[i]

\* C8: every cell that is fixed after newGame keeps its value and its
\* isFixed flag through all handlers, and no other cell becomes fixed: in
\* every state of a game the fixed cells are the clues of the puzzle, with
\* the values of the puzzle.
C8_CluesKept ==
  gameState.board # <<>> =>
    \A i \in Cells :
      /\ gameState.board[i].isFixed = (Clue(i) # 0)
      /\ Clue(i) # 0 => gameState.board[i].value = Clue(i)

\* leaving a cell with one note has committed it with its auto-fills, and
\* the cell now selected, at which the handlers aim, is a clue
C8_Witness ==
  /\ op = "selectedCell"
  /\ gameState.moveCount > 0
  /\ selectedCell # <<>>
  /\ gameState.board[selectedCell[1]].isFixed
  /\ \E i \in Cells : ~gameState.board[i].isFixed /\ gameState.board[i].value # 0

(***************************************************************************)
(* Moving in the history tree                                              *)
(***************************************************************************)

\* C9: undoAtom on a current node that is not the root makes its parent
\* current and sets the board and moveCount of the game to the parent's
\* snapshot; it deletes and alters no node, and the node it leaves stays
\* among its parent's children. On the root it changes neither the tree nor
\* the game state.
C9_UndoMovesToParent ==
  LET t == undoAtom(Store)
      tree == historyTree
      cur == tree.currentNodeId
  IN IF cur \in DOMAIN tree.nodes /\ tree.nodes[cur].parentId # NoId
     THEN /\ t.historyTree.currentNodeId = tree.nodes[cur].parentId
          /\ t.historyTree.nodes = tree.nodes
          /\ t.historyTree.rootId = tree.rootId
          /\ InSeq(cur, t.historyTree.nodes[tree.nodes[cur].parentId].childrenIds)
          /\ t.gameState.board = tree.nodes[tree.nodes[cur].parentId].board
          /\ t.gameState.moveCount = tree.nodes[tree.nodes[cur].parentId].moveCount
     ELSE /\ t.historyTree = tree
          /\ t.gameState = gameState

\* undoAtom has run, from the second move to the first, and will run again
C9_Witness ==
  /\ op = "undo"
  /\ historyTree.currentNodeId # historyTree.rootId
  /\ Len(historyTree.nodes[historyTree.currentNodeId].childrenIds) > 0
  /\ gameState.board = historyTree.nodes[historyTree.currentNodeId].board

\* restoreToNodeAtom(id) leaves the store t
Restored(t, id) ==
  IF id \in DOMAIN historyTree.nodes
  THEN /\ t.historyTree = [historyTree EXCEPT !.currentNodeId = id]
       /\ t.gameState.board = historyTree.nodes[id].board
       /\ t.gameState.moveCount = historyTree.nodes[id].moveCount
  ELSE /\ t.historyTree = historyTree
       /\ t.gameState = gameState

Depth(tree, id) == Cardinality(getPathToNode(tree.nodes, id)) - 1

\* the tree is one line of moves from the root
IsChain(tree) ==
  \A id \in DOMAIN tree.nodes : Len(tree.nodes[id].childrenIds) <= 1

\* C11: from a fresh root, after k commits, then u undos with 1 <= u < k,
\* then one more commit, the node at depth k - u has exactly two children,
\* no other node has more than one, and the current node is the new child,
\* with moveCount k - u + 1.  The tree of k commits and u undos is a chain
\* of k + 1 nodes with the current node at depth k - u, last reached by
\* undoAtom.
C11_OneBranchPoint ==
  [][(/\ op = "undo"
      /\ IsChain(historyTree)
      /\ Depth(historyTree, historyTree.currentNodeId) >= 1
      /\ Depth(historyTree, historyTree.currentNodeId)
           < Cardinality(DOMAIN historyTree.nodes) - 1
      /\ CommitStep)
     => /\ Cardinality(DOMAIN historyTree'.nodes)
            = Cardinality(DOMAIN historyTree.nodes) + 1
        /\ Depth(historyTree', historyTree.currentNodeId)
            = Depth(historyTree, historyTree.currentNodeId)
        /\ Len(historyTree'.nodes[historyTree.currentNodeId].childrenIds) = 2
        /\ \A id \in DOMAIN historyTree'.nodes \ {historyTree.currentNodeId} :
             Len(historyTree'.nodes[id].childrenIds) <= 1
        /\ historyTree'.nodes[historyTree'.currentNodeId].parentId
            = historyTree.currentNodeId
        /\ historyTree'.nodes[historyTree'.currentNodeId].moveCount
            = Depth(historyTree, historyTree.currentNodeId) + 1]_vars

\* five moves, two undos and a move: seven nodes, the node after move 3
\* has two children and the current node is the fourth move of the new
\* branch
C11_Witness ==
  /\ op = "setCellValue"
  /\ Cardinality(DOMAIN historyTree.nodes) = 7
  /\ gameState.moveCount = 4
  /\ historyTree.nodes[historyTree.currentNodeId].moveCount = 4
  /\ Depth(historyTree, historyTree.currentNodeId) = 4
  /\ Len(historyTree.nodes[historyTree.nodes[historyTree.currentNodeId].parentId].childrenIds) = 2

\* C12: the history tree is bounded: after every commit, which ends with
\* pruneHistoryTree, the tree has at most MAX_HISTORY_NODES nodes.
C12_TreeBounded ==
  Cardinality(DOMAIN historyTree.nodes) <= MAX_HISTORY_NODES

(***************************************************************************)
(* Placements and their auto-fills                                         *)
(***************************************************************************)

\* a step in which setCellValueAtom has set a value: not a clear, and not a
\* note toggled in note mode (hintAtom and the callback of applyHintAtom
\* turn note mode off)
SetValueStep ==
  /\ SetStep
  /\ op' # "clearCell"
  /\ op' \in {"hint", "applyHintTimeout"} \/ ~noteMode

\* the cells that were empty and now have a value
Filled == {i \in Cells : gameState.board[i].value = 0 /\ gameState'.board[i].value # 0}

\* one node is new, it is current and its snapshot is the board of the game
OneSnapshot ==
  /\ nextId' = nextId + 1
  /\ DOMAIN historyTree'.nodes \ DOMAIN historyTree.nodes = {historyTree'.currentNodeId}
  /\ historyTree'.nodes[historyTree'.currentNodeId].board = gameState'.board
  /\ \A i \in Filled :
       historyTree'.nodes[historyTree'.currentNodeId].board[i].value
         = gameState'.board[i].value

\* C13: one value placement, by setCellValueAtom or commitCellValueAtom,
\* that cascades into any number of auto-fills records exactly one node,
\* whose snapshot has the placed value and every auto-filled value.
C13_OneNodePerPlacement ==
  [][/\ SetValueStep =>
          /\ OneSnapshot
          /\ historyTree'.nodes[historyTree'.currentNodeId].board[selectedCell[1]].value
               = IF op' = "hint" THEN gameState.solution[selectedCell[1]]
                 ELSE IF op' = "applyHintTimeout" THEN timeouts[1]
                 ELSE historyTree'.nodes[historyTree'.currentNodeId].description.value
          /\ historyTree'.nodes[historyTree'.currentNodeId].board[selectedCell[1]].value # 0
     /\ CommitValueStep =>
          /\ OneSnapshot
          /\ historyTree'.nodes[historyTree'.currentNodeId]
                .board[pendingCellEdit[1].cell].value \in PendingNotes]_vars

\* a placement has filled other cells too: the one new node differs from
\* its parent in more than two cells
C13_Witness ==
  /\ op \in {"setCellValue", "selectedCell"}
  /\ historyTree.currentNodeId \in DOMAIN historyTree.nodes
  /\ historyTree.nodes[historyTree.currentNodeId].parentId # NoId
  /\ historyTree.nodes[historyTree.currentNodeId].description.auto > 0
  /\ Cardinality({i \in Cells :
         historyTree.nodes[historyTree.currentNodeId].board[i].value
           # historyTree.nodes[historyTree.nodes[historyTree.currentNodeId].parentId]
               .board[i].value}) > 2

\* C14: a commit never mutates existing nodes: the board, moveCount,
\* description, timestamp and parentId of every node that was in the tree
\* and still is are as before, and the only childrenIds that gains an entry
\* is that of the node that was current.
C14_CommitKeepsNodes ==
  [][CommitStep =>
       \A id \in DOMAIN historyTree.nodes \cap DOMAIN historyTree'.nodes :
         /\ historyTree'.nodes[id].board = historyTree.nodes[id].board
         /\ historyTree'.nodes[id].moveCount = historyTree.nodes[id].moveCount
         /\ historyTree'.nodes[id].description = historyTree.nodes[id].description
         /\ historyTree'.nodes[id].timestamp = historyTree.nodes[id].timestamp
         /\ historyTree'.nodes[id].parentId = historyTree.nodes[id].parentId
         /\ \A k \in 1 .. Len(historyTree'.nodes[id].childrenIds) :
              \/ InSeq(historyTree'.nodes[id].childrenIds[k],
                       historyTree.nodes[id].childrenIds)
              \/ /\ id = historyTree.currentNodeId
                 /\ historyTree'.nodes[id].childrenIds[k] = historyTree'.currentNodeId]_vars

\* leaving a cell with one note has committed its value in a full tree,
\* and the commit has pruned the tree
C14_Witness ==
  /\ op = "selectedCell"
  /\ historyTree.nodes[historyTree.currentNodeId].description.text = "="
  /\ Cardinality(DOMAIN historyTree.nodes) < MAX_HISTORY_NODES
  /\ Cardinality(DOMAIN historyTree.nodes) > MAX_HISTORY_NODES \div 2

(***************************************************************************)
(* The functions of the board                                              *)
(***************************************************************************)

\* two cells in one row, column or 3x3 box
SameUnit(i, j) ==
  /\ i # j
  /\ \/ RowOf(i) = RowOf(j)
     \/ ColOf(i) = ColOf(j)
     \/ (RowOf(i) \div 3 = RowOf(j) \div 3 /\ ColOf(i) \div 3 = ColOf(j) \div 3)

\* a cell with a value that another cell of its row, column or box has too
Clashes(board, i) ==
  /\ board[i].value # 0
  /\ \E j \in Cells : SameUnit(i, j) /\ board[j].value = board[i].value

\* C15: updateConflicts(b) returns a board in which a cell has isConflict
\* set if and only if it has a value and another cell of its row, column or
\* box has the same value: both cells of a pair are marked, every other cell
\* is not, and flags set in b are cleared.
C15_ConflictsMarked ==
  op = "updateConflicts" =>
    \A i \in Cells : out.result[i].isConflict = Clashes(out.board, i)

\* a board with clashing cells and with flags set on cells that do not
\* clash
C15_Witness ==
  /\ op = "updateConflicts"
  /\ \E i \in Cells : Clashes(out.board, i) /\ ~out.board[i].isConflict
  /\ \E i \in Cells : ~Clashes(out.board, i) /\ out.board[i].isConflict

\* C16: isSolved(b) is true if and only if every cell of b has a value and
\* no cell of b is flagged isConflict; and isSolved(updateConflicts(b)) is
\* true exactly when the values of b are a valid complete grid.
C16_SolvedIffFilledAndClean ==
  op = "isSolved" =>
    /\ out.result = (\A i \in Cells : out.board[i].value # 0 /\ ~out.board[i].isConflict)
    /\ out.updated = IsValidGrid(gameBoardToBoard(out.board))

\* a full board that is not a valid grid and has no flag set: solved as it
\* is, not solved once its conflicts are marked
C16_Witness ==
  /\ op = "isSolved"
  /\ out.result
  /\ ~out.updated

\* C17: createGameBoard(puzzle) gives every cell the value of the puzzle,
\* isFixed if and only if that value is not empty, isConflict false, no
\* notes if it has a value and otherwise exactly the digits 1-9 that are
\* not the value of a cell of its row, column or box.
C17_GameBoardOfPuzzle ==
  op = "createGameBoard" =>
    \A i \in Cells :
      /\ out[i].value = inBoard[i]
      /\ out[i].isFixed = (inBoard[i] # 0)
      /\ out[i].isConflict = FALSE
      /\ out[i].notes =
           IF inBoard[i] # 0 THEN {}
           ELSE {d \in 1 .. 9 : \A j \in Cells : SameUnit(i, j) => inBoard[j] # d}
      /\ Cardinality({j \in Cells : SameUnit(i, j)}) = 20

\* a puzzle with empty cells that have some candidates and not all
C17_Witness ==
  /\ op = "createGameBoard"
  /\ \E i \in Cells : inBoard[i] = 0 /\ out[i].notes # {} /\ out[i].notes # 1 .. 9
  /\ \E i \in Cells : inBoard[i] # 0 /\ out[i].isFixed

(***************************************************************************)
(* Notes                                                                   *)
(***************************************************************************)

\* C18: in every reachable state of the game every cell that has a value has
\* no notes.
C18_FilledCellsHaveNoNotes ==
  gameState.board # <<>> =>
    \A i \in Cells : gameState.board[i].value # 0 => gameState.board[i].notes = {}

\* C19: in every state reached from createGameBoard by placements, clears,
\* auto-fills, undo and restore, with no note toggled by the player, the
\* notes of an empty cell hold no digit that is the value of a cell of its
\* row, column or box.
C19_NotesAvoidPeerValues ==
  gameState.board # <<>> =>
    \A i \in Cells :
      gameState.board[i].value = 0 =>
        \A j \in Cells :
          SameUnit(i, j) => gameState.board[j].value \notin gameState.board[i].notes

\* a placement has filled other cells too and the placed cell has then been
\* cleared, next to empty cells that still have notes
C19_Witness ==
  /\ op = "clearCell"
  /\ gameState.board[selectedCell[1]].value = 0
  /\ \E i \in Cells : ~gameState.board[i].isFixed /\ gameState.board[i].value # 0
  /\ \E i \in Cells : gameState.board[i].value = 0 /\ gameState.board[i].notes # {}

(***************************************************************************)
(* Handlers on a fixed cell                                                *)
(***************************************************************************)

\* the store t has the board, moveCount, isComplete, legacy history and
\* history tree of the game
SameGame(t) ==
  /\ t.gameState.board = gameState.board
  /\ t.gameState.moveCount = gameState.moveCount
  /\ t.gameState.isComplete = gameState.isComplete
  /\ t.history = history
  /\ t.historyTree = historyTree

\* C20: setCellValueAtom, clearCellAtom, toggleNoteAtom and hintAtom called
\* while the selected cell is fixed change nothing: the board, moveCount,
\* isComplete, the legacy history and the history tree stay as they are.
C20_FixedCellNoOp ==
  (/\ gameState.board # <<>>
   /\ selectedCell # <<>>
   /\ gameState.board[selectedCell[1]].isFixed)
  => /\ \A v \in PlayValues : SameGame(setCellValueAtom(Store, v))
     /\ SameGame(clearCellAtom(Store))
     /\ \A v \in 1 .. 9 : SameGame(toggleNoteAtom(Store, v))
     /\ SameGame(hintAtom(Store))

\* a clue is selected in a game with moves made, in note mode
C20_Witness ==
  /\ gameState.board # <<>>
  /\ selectedCell # <<>>
  /\ gameState.board[selectedCell[1]].isFixed
  /\ noteMode
  /\ gameState.moveCount > 0
  /\ Cardinality(DOMAIN historyTree.nodes) > 1

\* how often id is in the sequence
Occurrences(id, seq) == Cardinality({k \in 1 .. Len(seq) : seq[k] = id})

\* the nodes form a tree: the root and the current node exist, every other
\* node is once among the children of its parent, and every child listed
\* exists and names the node that lists it as its parent
IsTree(tree) ==
  /\ tree.rootId \in DOMAIN tree.nodes
  /\ tree.currentNodeId \in DOMAIN tree.nodes
  /\ \A id \in DOMAIN tree.nodes :
       /\ tree.nodes[id].id = id
       /\ id # tree.rootId =>
            /\ tree.nodes[id].parentId \in DOMAIN tree.nodes
            /\ Occurrences(id, tree.nodes[tree.nodes[id].parentId].childrenIds) = 1
       /\ \A k \in 1 .. Len(tree.nodes[id].childrenIds) :
            /\ tree.nodes[id].childrenIds[k] \in DOMAIN tree.nodes
            /\ tree.nodes[tree.nodes[id].childrenIds[k]].parentId = id

\* the nodes a commit has deleted had no child that is left, and are not
\* among the children of their parents
PrunedCleanly ==
  \A id \in DOMAIN historyTree.nodes \ DOMAIN historyTree'.nodes :
    /\ \A k \in 1 .. Len(historyTree.nodes[id].childrenIds) :
         historyTree.nodes[id].childrenIds[k] \notin DOMAIN historyTree'.nodes
    /\ \A n \in DOMAIN historyTree'.nodes :
         /\ historyTree'.nodes[n].parentId # id
         /\ ~InSeq(id, historyTree'.nodes[n].childrenIds)

\* C29: after any sequence of new games, commits, undos, restores and
\* prunings the history nodes form a tree: rootId and currentNodeId name
\* nodes; the parentId of every node but the root names a node whose
\* childrenIds hold it exactly once; every id in a childrenIds names a node
\* whose parentId is the node that lists it; pruning deletes only nodes of
\* which no child is left and takes each out of its parent's childrenIds.
C29_NodesFormTree ==
  /\ [](historyTree.rootId # NoId => IsTree(historyTree))
  /\ [][CommitStep => PrunedCleanly]_vars

\* a commit has pruned a tree that branches below the root, and the game is
\* at a node with a sibling
C29_Witness ==
  /\ op \in {"setCellValue", "clearCell", "hint"}
  /\ Cardinality(DOMAIN historyTree.nodes) < nextId - 1
  /\ historyTree.currentNodeId # historyTree.rootId
  /\ Len(historyTree.nodes[historyTree.nodes[historyTree.currentNodeId].parentId].childrenIds) > 1
  /\ historyTree.nodes[historyTree.currentNodeId].parentId # historyTree.rootId

\* every cell has a value and no two cells of a row, a column or a box have
\* the same value
BoardSolved(board) ==
  /\ board # <<>>
  /\ \A i \in Cells : board[i].value # 0 /\ ~Clashes(board, i)

\* C33: after every store operation isComplete is true exactly when every
\* cell of the board has a value and no two peers have the same value; in
\* particular undoAtom, which sets isComplete to false whatever the board
\* is, never lands on a solved board.
C33_CompleteIffSolved ==
  /\ gameState.isComplete <=> BoardSolved(gameState.board)
  /\ op = "undo" => ~BoardSolved(gameState.board)

C33_Witness ==
  /\ op = "undo"
  /\ ~gameState.isComplete
  /\ \E id \in DOMAIN historyTree.nodes :
       /\ BoardSolved(historyTree.nodes[id].board)
       /\ historyTree.nodes[id].parentId = historyTree.currentNodeId

(***************************************************************************)
(* Hints that are applied                                                  *)
(***************************************************************************)

\* the hint that is shown places a value
ShowsPlacement(s) ==
  /\ s.currentHint # <<>>
  /\ Len(s.currentHint[1].affectedCells) > 0
  /\ s.currentHint[1].affectedCells[1].value # 0

\* applyHintAtom and then the callback it has left
HintApplied(shown) == applyHintTimeout(applyHintAtom(shown))

\* t has one node and one move more than s
OneMoveMore(s, t) ==
  /\ t.nextId = s.nextId + 1
  /\ Cardinality(DOMAIN t.historyTree.nodes)
       = Cardinality(DOMAIN s.historyTree.nodes) + 1
  /\ t.gameState.moveCount = s.gameState.moveCount + 1

HintAddsOneNode(s, shown) ==
  ShowsPlacement(shown) => OneMoveMore(s, HintApplied(shown))

\* C34: in every state of an incomplete game, showHintAtom, applyHintAtom
\* and the callback of applyHintAtom, applied one after the other to a hint
\* that places a value, add exactly one node to the history tree and one to
\* moveCount, also when the cell of the hint has one note, is selected and
\* has a pending edit.
C34_HintAddsOneNode ==
  gameState.board # <<>> /\ ~gameState.isComplete /\ timeouts = <<>> =>
    HintAddsOneNode(Store, showHintAtom(Store))

\* what may run between applyHintAtom and its callback: nothing, a write of
\* selectedCellAtom, undoAtom
Interleavings ==
  {[kind |-> "none", cell |-> 0], [kind |-> "undo", cell |-> 0]}
    \cup {[kind |-> "select", cell |-> c] : c \in PlayCells}

Interleaved(s, between) ==
  IF between.kind = "undo" THEN undoAtom(s)
  ELSE IF between.kind = "select" THEN selectedCellAtom(s, <<between.cell>>)
  ELSE s

\* the callback that takes u to t has placed nothing, or the value in the
\* cell: the node it has made says so
NamesCell(u, t, cell, value) ==
  t.nextId # u.nextId =>
    /\ t.historyTree.nodes[t.historyTree.currentNodeId].description.text = "="
    /\ t.historyTree.nodes[t.historyTree.currentNodeId].description.cell = cell
    /\ t.historyTree.nodes[t.historyTree.currentNodeId].description.value = value
    /\ t.gameState.board[cell].value = value

CallbackNamesCell(u, cell, value) ==
  NamesCell(u, applyHintTimeout(u), cell, value)

\* C35: when applyHintAtom is called for a hint that places v in X, the
\* callback places v in X and in no other cell, whatever runs between
\* applyHintAtom and the callback: nothing, the selection of another cell,
\* undoAtom.
C35_HintPlacedInItsCell ==
  gameState.board # <<>> /\ timeouts = <<>> /\ ShowsPlacement(Store) =>
    \A between \in Interleavings :
      CallbackNamesCell(Interleaved(applyHintAtom(Store), between),
                        currentHint[1].affectedCells[1].cell,
                        currentHint[1].affectedCells[1].value)

(***************************************************************************)
(* The pending edit                                                        *)
(***************************************************************************)

\* the tree and the moves are as they were
NoNodeAdded ==
  /\ historyTree' = historyTree
  /\ gameState'.moveCount = gameState.moveCount
  /\ gameState'.board = gameState.board

\* the node that is new and current is a placement in the cell
PlacementNode(cell) ==
  /\ OneNodeAdded
  /\ gameState'.moveCount = gameState.moveCount + 1
  /\ historyTree'.nodes[historyTree'.currentNodeId].description.text = "="
  /\ historyTree'.nodes[historyTree'.currentNodeId].description.cell = cell
  /\ gameState'.board[cell].value \in gameState.board[cell].notes

\* the node that is new and current records the notes of the cell
NotesNode(cell) ==
  /\ OneNodeAdded
  /\ gameState'.moveCount = gameState.moveCount + 1
  /\ historyTree'.nodes[historyTree'.currentNodeId].description.text = "notes"
  /\ historyTree'.nodes[historyTree'.currentNodeId].description.cell = cell
  /\ gameState'.board = gameState.board

\* the pending edit of the cell that was pending is committed
PendingCommitted ==
  IF Cardinality(PendingNotes) = 1
  THEN PlacementNode(pendingCellEdit[1].cell)
  ELSE IF /\ Cardinality(PendingNotes) > 1
          /\ PendingNotes # pendingCellEdit[1].originalNotes
  THEN NotesNode(pendingCellEdit[1].cell)
  ELSE NoNodeAdded

\* the pending edit is that of the selected cell if the cell is empty and
\* not fixed on the board, with the notes the cell has there
TracksSelected(pending, selected, board) ==
  pending = IF /\ selected # <<>>
               /\ ~board[selected[1]].isFixed
               /\ board[selected[1]].value = 0
            THEN <<[cell |-> selected[1],
                    originalNotes |-> board[selected[1]].notes]>>
            ELSE <<>>

NoteToggled(s, t, i, d) ==
  /\ t.gameState.board[i].notes =
       IF d \in s.gameState.board[i].notes
       THEN s.gameState.board[i].notes \ {d}
       ELSE s.gameState.board[i].notes \cup {d}
  /\ t.gameState.board[i].value = s.gameState.board[i].value
  /\ t.gameState.board[i].isFixed = s.gameState.board[i].isFixed
  /\ t.gameState.board[i].isConflict = s.gameState.board[i].isConflict
  /\ \A j \in Cells \ {i} : t.gameState.board[j] = s.gameState.board[j]
  /\ t.gameState.moveCount = s.gameState.moveCount
  /\ t.gameState.isComplete = s.gameState.isComplete
  /\ t.gameState.solution = s.gameState.solution
  /\ t.historyTree = s.historyTree
  /\ t.history = s.history
  /\ t.selectedCell = s.selectedCell
  /\ t.pendingCellEdit = s.pendingCellEdit
  /\ t.noteMode = s.noteMode
  /\ t.currentHint = s.currentHint
  /\ t.nextId = s.nextId

ToggleNoteFrame(s, t, i, d) ==
  IF s.gameState.board[i].isFixed \/ s.gameState.board[i].value # 0
  THEN t = s
  ELSE /\ NoteToggled(s, t, i, d)
       /\ toggleNoteAtom(t, d).gameState.board[i].notes = s.gameState.board[i].notes
       /\ toggleNoteAtom(t, d) = s

\* C37: toggleNoteAtom(d) on a selected cell that is empty and not fixed
\* adds d to the notes of the cell if it is absent and removes it if it is
\* present, and changes nothing else: no other cell, no value or flag,
\* moveCount, isComplete, the tree, the legacy history and the selection are
\* as before.  On a cell that is fixed or has a value it changes nothing,
\* and applied twice with the same d it restores the notes.
C37_ToggleNoteFrame ==
  selectedCell # <<>> /\ gameState.board # <<>> =>
    \A d \in Digits :
      ToggleNoteFrame(Store, toggleNoteAtom(Store, d), selectedCell[1], d)

\* the player has toggled a note of the cell they edit, after a move
C37_Witness ==
  /\ op = "toggleNote"
  /\ pendingCellEdit # <<>>
  /\ gameState.board[selectedCell[1]].notes # pendingCellEdit[1].originalNotes
  /\ gameState.moveCount > 0

(***************************************************************************)
(* Move counts                                                             *)
(***************************************************************************)

\* C38: after every store operation moveCount of the game is moveCount of
\* the current node, and moveCount of every node but the root is one more
\* than that of its parent, which makes it the depth of the node.
C38_MoveCountIsDepth ==
  historyTree.nodes # <<>> =>
    /\ historyTree.currentNodeId \in DOMAIN historyTree.nodes
    /\ gameState.moveCount = historyTree.nodes[historyTree.currentNodeId].moveCount
    /\ \A id \in DOMAIN historyTree.nodes :
         IF historyTree.nodes[id].parentId = NoId
         THEN historyTree.nodes[id].moveCount = 0
         ELSE /\ historyTree.nodes[id].parentId \in DOMAIN historyTree.nodes
              /\ historyTree.nodes[id].moveCount
                   = historyTree.nodes[historyTree.nodes[id].parentId].moveCount + 1
              /\ historyTree.nodes[id].moveCount = Depth(historyTree, id)

\* the current node is a note change made after a move and an undo has
\* been taken back from one of its siblings or children
C38_Witness ==
  /\ historyTree.nodes # <<>>
  /\ op \in {"undo", "restoreToNode"}
  /\ gameState.moveCount > 0
  /\ \E id \in DOMAIN historyTree.nodes :
       historyTree.nodes[id].description.text = "notes"

(***************************************************************************)
(* Claims about the hint engine (src/src/lib/solver.ts).                   *)
(***************************************************************************)

\* getHint has run on a board with an empty cell
HintAsked == op = "getHint" /\ \E i \in Cells : inBoard[i].value = 0

\* the empty cells of the board with exactly one note
Singles(board) ==
  {i \in Cells : board[i].value = 0 /\ Cardinality(board[i].notes) = 1}

\* the first hint of a sequence of detector results that is not null
FirstOf(hints) ==
  IF \A k \in DOMAIN hints : hints[k] = <<>> THEN <<>>
  ELSE hints[Least({k \in DOMAIN hints : hints[k] # <<>>})]

\* the results of the detectors in the order of the claim
Detectors(board) ==
  <<findNakedSingle(board),
    HiddenSingleIn(board, RowCells, "Hidden Single (Row)"),
    HiddenSingleIn(board, ColCells, "Hidden Single (Column)"),
    HiddenSingleIn(board, BoxCells, "Hidden Single (Box)"),
    findPointingPair(board),
    findNakedPair(board),
    findSolutionHint(board)>>

\* C21: on a board with an empty cell getHint returns the result of the first
\* detector that matches, in the order Naked Single, Hidden Single (rows,
\* columns, boxes), Pointing Pair, Naked Pair, Solution Check; whenever an
\* empty cell has exactly one note the hint is 'Naked Single' for the first
\* such cell in row-major order, with that note as its value.
C21_FirstDetectorWins ==
  HintAsked =>
    /\ out = FirstOf(Detectors(inBoard))
    /\ Singles(inBoard) # {} =>
         /\ out # <<>>
         /\ out[1].technique = "Naked Single"
         /\ Len(out[1].affectedCells) = 1
         /\ out[1].affectedCells[1].cell = Least(Singles(inBoard))
         /\ inBoard[Least(Singles(inBoard))].notes = {out[1].affectedCells[1].value}

\* the hint is a naked single of a board with several single-note cells, one
\* of them the only place of its number in its row
C21_Witness ==
  /\ HintAsked
  /\ Cardinality(Singles(inBoard)) > 1
  /\ HiddenSingleIn(inBoard, RowCells, "Hidden Single (Row)") # <<>>
  /\ out # <<>>
  /\ out[1].technique = "Naked Single"

\* no technique detector matches the board
NoTechnique(board) ==
  /\ Singles(board) = {}
  /\ findHiddenSingle(board) = <<>>
  /\ findPointingPair(board) = <<>>
  /\ findNakedPair(board) = <<>>

\* C22: getHint returns null when every cell of the board has a value; on a
\* board with an empty cell it returns null only if no technique detector
\* matches and the solver returns no solution for the values of the board.
C22_NullHint ==
  op = "getHint" =>
    /\ (\A i \in Cells : inBoard[i].value # 0) => out = <<>>
    /\ (HintAsked /\ out = <<>>) =>
         /\ NoTechnique(inBoard)
         /\ ~solvePuzzle(gameBoardToBoard(inBoard)).found

\* no hint for a board with an empty cell
C22_Witness == HintAsked /\ out = <<>>

\* the names of the technique detectors' hints
TechniqueNames ==
  {"Naked Single", "Hidden Single (Row)", "Hidden Single (Column)",
   "Hidden Single (Box)", "Pointing Pair", "Naked Pair"}

\* the hint is the solver's value for the first empty cell of the board
IsSolutionCheck(hint, board, solution) ==
  /\ hint # <<>>
  /\ hint[1].technique = "Solution Check"
  /\ hint[1].technique \notin TechniqueNames
  /\ Len(hint[1].affectedCells) = 1
  /\ hint[1].affectedCells[1].cell = Least({i \in Cells : board[i].value = 0})
  /\ hint[1].affectedCells[1].value = solution.board[hint[1].affectedCells[1].cell]
  /\ hint[1].affectedCells[1].value \in Digits

\* C23: when no technique detector matches and the solver solves the values
\* of the board, getHint returns a hint labelled 'Solution Check', a label
\* that is none of the technique names, whose single affected cell is the
\* first empty cell in row-major order with the value the solver gives it.
C23_SolutionCheck ==
  (/\ HintAsked
   /\ NoTechnique(inBoard)
   /\ solvePuzzle(gameBoardToBoard(inBoard)).found)
  => IsSolutionCheck(out, inBoard, solvePuzzle(gameBoardToBoard(inBoard)))

\* a solution check for a board with notes left in later cells, whose first
\* empty cell has no notes
C23_Witness ==
  /\ HintAsked
  /\ out # <<>>
  /\ out[1].technique = "Solution Check"
  /\ inBoard[out[1].affectedCells[1].cell].notes = {}
  /\ \E i \in Cells : inBoard[i].value = 0 /\ inBoard[i].notes # {}

\* the empty cells of the board that hold the note d
Holders(board, d) == {i \in Cells : board[i].value = 0 /\ d \in board[i].notes}

\* the cells listed by the hint
Affected(hint) ==
  {hint[1].affectedCells[k].cell : k \in DOMAIN hint[1].affectedCells}

\* the hint eliminates d from exactly the holders of d in one line (the cells
\* with Line(i) = n) outside the box b, in which 2 or 3 cells hold d, all of
\* them in that line
PointsAlong(hint, board, d, b, Line(_), n) ==
  LET inBox == {i \in Holders(board, d) : BoxOf(i) = b}
  IN /\ Cardinality(inBox) \in {2, 3}
     /\ \A i \in inBox : Line(i) = n
     /\ Affected(hint) = {i \in Holders(board, d) : Line(i) = n /\ BoxOf(i) # b}
     /\ \A k \in DOMAIN hint[1].affectedCells :
          hint[1].affectedCells[k].eliminated = {d}

\* C30: every 'Pointing Pair' hint is about a digit d and a box in which 2 or
\* 3 empty cells hold the note d, all in one row (or one column); its
\* affected cells are exactly the empty cells of that row (column) outside
\* the box that hold the note d, each listed once with eliminated = [d]; the
\* list is not empty and no cell of the box is in it.
C30_PointingPair ==
  (op = "getHint" /\ out # <<>> /\ out[1].technique = "Pointing Pair")
  => /\ Len(out[1].affectedCells) > 0
     /\ Cardinality(Affected(out)) = Len(out[1].affectedCells)
     /\ \E d \in Digits, b \in 0 .. 8 :
          /\ \A i \in Affected(out) : BoxOf(i) # b
          /\ \/ \E r \in 0 .. 8 : PointsAlong(out, inBoard, d, b, RowOf, r)
             \/ \E c \in 0 .. 8 : PointsAlong(out, inBoard, d, b, ColOf, c)

\* a pointing pair along a column that eliminates from two cells
C30_Witness ==
  /\ op = "getHint"
  /\ out # <<>>
  /\ out[1].technique = "Pointing Pair"
  /\ Len(out[1].affectedCells) = 2
  /\ ColOf(out[1].affectedCells[1].cell) = ColOf(out[1].affectedCells[2].cell)

\* the cells a and b of the unit are a naked pair: both empty with the same
\* two notes, and another empty cell of the unit holds one of the two
NakedPairAt(board, unit, a, b) ==
  /\ a \in unit /\ b \in unit /\ a # b
  /\ board[a].value = 0 /\ board[b].value = 0
  /\ Cardinality(board[a].notes) = 2
  /\ board[b].notes = board[a].notes
  /\ \E i \in unit \ {a, b} :
       board[i].value = 0 /\ board[i].notes \cap board[a].notes # {}

\* the hint lists the other empty cells of the unit that hold a note of the
\* pair, each once with the notes of the pair it holds
EliminatesPair(hint, board, unit, a, b) ==
  /\ hint[1].technique = "Naked Pair"
  /\ Cardinality(Affected(hint)) = Len(hint[1].affectedCells)
  /\ Affected(hint)
       = {i \in unit \ {a, b} :
            board[i].value = 0 /\ board[i].notes \cap board[a].notes # {}}
  /\ \A k \in DOMAIN hint[1].affectedCells :
       hint[1].affectedCells[k].eliminated
         = board[hint[1].affectedCells[k].cell].notes \cap board[a].notes

\* findNakedPair finds a pair of one of the units whenever one has a pair
FindsPairOf(units) ==
  (op = "findNakedPair" /\ \E u \in units, a, b \in Cells : NakedPairAt(inBoard, u, a, b))
  => /\ out # <<>>
     /\ \E u \in units, a, b \in Cells :
          /\ NakedPairAt(inBoard, u, a, b)
          /\ EliminatesPair(out, inBoard, u, a, b)

\* C31 as stated: if two empty cells of a row, column or box have the same
\* two notes and another empty cell of the unit holds one of them,
\* findNakedPair returns a 'Naked Pair' step.
C31_NakedPairAnyUnit == FindsPairOf(UnitSets)

\* the rows
RowSets == {{r * 9 + c : c \in 0 .. 8} : r \in 0 .. 8}

\* C31: if two empty cells of a row have the same two notes and another
\* empty cell of the row holds one of them, findNakedPair returns a 'Naked
\* Pair' step whose affected cells are the other empty cells of the row of
\* such a pair that hold one of the two digits, each listing exactly the
\* digits of the pair it holds, and never the two cells of the pair.
C31_NakedPairInRow == FindsPairOf(RowSets)

\* a pair in a row that eliminates from two cells, one holding both digits
\* and a third
C31_Witness ==
  /\ op = "findNakedPair"
  /\ out # <<>>
  /\ Len(out[1].affectedCells) >= 2
  /\ \E k \in DOMAIN out[1].affectedCells :
       Cardinality(inBoard[out[1].affectedCells[k].cell].notes) = 3

\* a placement names the value of the solution, an elimination leaves it
AgreesWith(hint, solution) ==
  \A k \in 1 .. Len(hint.affectedCells) :
    /\ hint.affectedCells[k].value # 0 =>
         hint.affectedCells[k].value = solution[hint.affectedCells[k].cell]
    /\ solution[hint.affectedCells[k].cell] \notin hint.affectedCells[k].eliminated

\* C32: on the board of a new game and on every board reached by entering
\* values of the solution, the hint showHintAtom gets from getHint agrees
\* with the solution: it places the value of the solution and it never
\* eliminates the value of the solution from a cell
C32_HintsAgree ==
  op = "showHint" /\ currentHint # <<>> =>
    AgreesWith(currentHint[1], gameState.solution)

C32_Witness ==
  /\ op = "showHint"
  /\ currentHint # <<>>
  /\ gameState.moveCount > 0
  /\ currentHint[1].technique = "Pointing Pair"
  /\ currentHint[1].affectedCells[1].eliminated # {}

(***************************************************************************)
(* The auto-fill loop                                                      *)
(***************************************************************************)

\* the cells the loop has filled
AutoFilled == {i \in Cells : inBoard[i].value = 0 /\ out.board[i].value # 0}

\* C40: for every board the loop that calls autoFillNakedSingles ends, after
\* at most 81 calls; when it has ended no cell that is empty and not fixed
\* has exactly one note, and every cell it has filled has no notes and its
\* value is in the notes of no cell of its row, its column or its box.
C40_AutoFillEnds ==
  op = "autoFillNakedSingles" =>
    /\ out.done
    /\ out.count + 1 <= 81
    /\ \A i \in Cells :
         ~(/\ out.board[i].value = 0
           /\ ~out.board[i].isFixed
           /\ Cardinality(out.board[i].notes) = 1)
    /\ \A i \in AutoFilled :
         /\ out.board[i].notes = {}
         /\ \A j \in Cells :
              SameUnit(i, j) => out.board[i].value \notin out.board[j].notes

\* a cascade of several passes that leaves cells empty
C40_Witness ==
  /\ op = "autoFillNakedSingles"
  /\ out.count >= 2
  /\ Cardinality(AutoFilled) >= 3
  /\ \E i \in Cells : out.board[i].value = 0 /\ out.board[i].notes # {}
====
